---- MODULE Spec2Model ----
(***************************************************************************)
(* Model of the dictionary matcher (app/services/matcher.py) and of the    *)
(* query overlay engine (app/services/audio_query_service.py) of the       *)
(* VOICEVOX extended-dictionary server.                                    *)
(*                                                                         *)
(* Python values are modelled as follows.                                  *)
(*   str            a sequence of one-character strings                    *)
(*   float          an integer (6.0 -> 60, 0.21 -> 21)                     *)
(*   list           a sequence; Python index i is position i + 1           *)
(*   dict / object  a record                                               *)
(*   Optional[list] a record: None, or Some(list)                          *)
(* An AudioQuery is a mutable object: it lives in `heap` and the program   *)
(* holds references (heap addresses) to it, so that a write through one    *)
(* reference is seen through every other reference to the same object.     *)
(* An object no reference leads to any more is collected: its address      *)
(* holds Null again.                                                       *)
(*                                                                         *)
(* The request handlers of app/routers/synthesis.py are modelled one step  *)
(* per engine call (an await) and one step per iteration of the loop over  *)
(* the matches.                                                            *)
(***************************************************************************)
EXTENDS Integers, Sequences, FiniteSets, TLC

VARIABLES
    pc,           \* where the caller (or the request handler) is
    heap,         \* address -> AudioQuery object (or Null when nothing lives there)
    audio_query,  \* the address of the caller's AudioQuery
    call,         \* the arguments of the last call (NoCall before it)
    ret,          \* what the last call returned or raised (NoRet before it)
    original,     \* history: the value of the caller's AudioQuery before the call
    entries,      \* the entry list handed to the matcher
    input_text,   \* the source text handed to the matcher
    results,      \* the list of MatchResult the matcher returned
    previous,     \* history: the list the matcher returned on its first run
    endpoint,     \* the request handler that is running ("none": no request)
    modified_query,   \* the address of the handler's running query (0: unset)
    match_index,      \* how many matches the handler's loop has gone through
    applied_entries,  \* the words the apply-only handler has applied
    engine,       \* history: the calls made to the VOICEVOX engine, in order
    closed,       \* history: how many times client.close() was called
    applied,      \* history: how many matches the handler has applied
    response,     \* what the handler answered (NoResponse before it)
    dict_file,    \* the dictionary file extended_dict.json: NoFile, or its JSON content
    file_before,  \* history: the dictionary file before the last request
    started_distinct  \* history: the words of the first file were pairwise distinct

\* the state of a request handler
flow_vars ==
    <<endpoint, modified_query, match_index, applied_entries, engine, closed,
      applied, response>>

\* the state of the dictionary store
store_vars == <<dict_file, file_before, started_distinct>>

vars ==
    <<pc, heap, audio_query, call, ret, original, entries, input_text, results,
      previous, endpoint, modified_query, match_index, applied_entries, engine,
      closed, applied, response, dict_file, file_before, started_distinct>>

----------------------------------------------------------------------------
(* Bounds of the model *)

\* most accent phrases in a query
MaxPhrases == 2
\* most moras in one accent phrase
MaxMoras == 2
\* longest pitch_values / length_values list of an entry
MaxValues == 2
\* most accent phrases in a query handed to the matcher
MaxMatchPhrases == 2
\* most moras, over all accent phrases, in a query handed to the matcher
MaxMatchMoras == 3
\* most entries in the entry list handed to the matcher
MaxEntries == 2

----------------------------------------------------------------------------
(* Python helpers *)

\* Optional[List[float]]: None, or a list
None == [is_none |-> TRUE, values |-> <<>>]
Some(values) == [is_none |-> FALSE, values |-> values]

\* no object lives at the address
Null == [null |-> TRUE]
NoCall == [op |-> "none"]
NoRet == [status |-> "none"]
NoResponse == [status |-> 0]
\* `not dict_path.exists()`
NoFile == [exists |-> FALSE, data |-> <<>>]

\* heap addresses: the caller's object, the running query of a handler and
\* the one a copy is allocated at
Refs == {1, 2, 3}

\* "".join(parts)
RECURSIVE Join(_)
Join(parts) ==
    IF parts = <<>> THEN <<>> ELSE Head(parts) \o Join(Tail(parts))

\* seq[lo:hi] for 0 <= lo, hi (a Python slice, clipped to the list)
Slice(seq, lo, hi) ==
    LET h == IF hi > Len(seq) THEN Len(seq) ELSE hi
    IN  IF lo >= h THEN <<>> ELSE [k \in 1..(h - lo) |-> seq[lo + k]]

\* s[i:i + len(sub)] == sub, for a Python index i
OccursAt(s, sub, i) ==
    /\ i >= 0
    /\ i + Len(sub) <= Len(s)
    /\ \A k \in 1..Len(sub) : s[i + k] = sub[k]

Min(S) == CHOOSE x \in S : \A y \in S : x <= y

\* s.find(sub, start): the lowest index >= start where sub occurs, or -1
Find(s, sub, start) ==
    LET hits == {i \in start..(Len(s) - Len(sub)) : OccursAt(s, sub, i)}
    IN  IF hits = {} THEN 0 - 1 ELSE Min(hits)

\* `sub in s`
Contains(sub, s) == Find(s, sub, 0) # 0 - 1

----------------------------------------------------------------------------
(* Data: AudioQuery, accent phrase, mora, dictionary entry *)

\* a mora as the engine produces it: text, pitch, vowel_length, consonant_length
Mora(text, k) ==
    [text |-> text, pitch |-> 50 + k, vowel_length |-> 10 + k, consonant_length |-> 5]

AccentPhrase(moras) == [moras |-> moras, accent |-> 1]

AudioQuery(accent_phrases) == [accent_phrases |-> accent_phrases, speedScale |-> 10]

\* ExtendedDictEntry: the fields the matcher and the overlay read
ExtendedDictEntry(word, pronunciation, pitch_values, length_values) ==
    [word |-> word, pronunciation |-> pronunciation,
     pitch_values |-> pitch_values, length_values |-> length_values]

----------------------------------------------------------------------------
(* AudioQueryService *)

\* An exception leaves the function: no value is returned.
Raise(h, kind, message) ==
    [heap |-> h, status |-> kind, message |-> message, ref |-> 0]

Return(h, ref) ==
    [heap |-> h, status |-> "ok", message |-> "", ref |-> ref]

\* faulty variant: the reference itself is handed back, no copy is made
_deep_copy_query_alias(h, ref) ==
    [heap |-> h, ref |-> ref]

\* copy.deepcopy(audio_query): a new object, equal to the old one, sharing
\* nothing with it
_deep_copy_query(h, ref) ==
    LET new == CHOOSE r \in Refs : h[r] = Null
    IN  [heap |-> [h EXCEPT ![new] = h[ref]], ref |-> new]

\* faulty variant: an empty list counts as a list of values
HasValues_not_none(values) == ~values.is_none

\* `values is not None and len(values) > 0`
HasValues(values) == ~values.is_none /\ Len(values.values) > 0

\* faulty variant: only a list that is too long is refused
CountMismatch_too_long(values, target_mora_count) ==
    Len(values.values) > target_mora_count

\* `len(values) != target_mora_count`
CountMismatch(values, target_mora_count) ==
    Len(values.values) # target_mora_count

\* faulty variant: the values are written from the start of the phrase
WritePitch_from0(moras, mora_start_index, pitch_values) ==
    [k \in 1..Len(moras) |->
        IF k <= Len(pitch_values)
        THEN [moras[k] EXCEPT !.pitch = pitch_values[k]]
        ELSE moras[k]]

\* faulty variant: the moras after the last written one are dropped
WritePitch_truncating(moras, mora_start_index, pitch_values) ==
    [k \in 1..(mora_start_index + Len(pitch_values)) |->
        IF k - 1 >= mora_start_index
        THEN [moras[k] EXCEPT !.pitch = pitch_values[k - mora_start_index]]
        ELSE moras[k]]

\* for i, pitch in enumerate(entry.pitch_values):
\*     moras[mora_start_index + i]["pitch"] = pitch
WritePitch(moras, mora_start_index, pitch_values) ==
    [k \in 1..Len(moras) |->
        IF k - 1 >= mora_start_index /\ k - 1 < mora_start_index + Len(pitch_values)
        THEN [moras[k] EXCEPT !.pitch = pitch_values[k - mora_start_index]]
        ELSE moras[k]]

\* faulty variant: the lengths are written from the start of the phrase
WriteLength_from0(moras, mora_start_index, length_values) ==
    [k \in 1..Len(moras) |->
        IF k <= Len(length_values)
        THEN [moras[k] EXCEPT !.vowel_length = length_values[k]]
        ELSE moras[k]]

\* for i, length in enumerate(entry.length_values):
\*     moras[mora_start_index + i]["vowel_length"] = length
WriteLength(moras, mora_start_index, length_values) ==
    [k \in 1..Len(moras) |->
        IF k - 1 >= mora_start_index /\ k - 1 < mora_start_index + Len(length_values)
        THEN [moras[k] EXCEPT !.vowel_length = length_values[k - mora_start_index]]
        ELSE moras[k]]

\* the object at `ref` with the moras of accent phrase p (a position) replaced
StoreMoras(h, ref, p, moras) ==
    [h EXCEPT ![ref].accent_phrases[p].moras = moras]

\* apply_partial_match(audio_query, entry, accent_phrase_index,
\*                     mora_start_index, mora_end_index)
apply_partial_match(h, ref, entry, accent_phrase_index, mora_start_index, mora_end_index) ==
    LET copy == _deep_copy_query(h, ref)
        result == copy.ref
        h0 == copy.heap
        accent_phrases == h0[result].accent_phrases
        n == Len(accent_phrases)
    IN  IF accent_phrase_index >= n
        THEN Raise(h0, "ValueError", "Invalid accent_phrase_index")
        ELSE IF accent_phrase_index < 0 - n
        THEN \* accent_phrases[accent_phrase_index] with an index below -len
             Raise(h0, "IndexError", "list index out of range")
        ELSE
        LET \* a negative Python index counts from the end of the list
            p == IF accent_phrase_index >= 0
                 THEN accent_phrase_index + 1
                 ELSE n + accent_phrase_index + 1
            moras == accent_phrases[p].moras
            target_mora_count == mora_end_index - mora_start_index
        IN  IF mora_start_index < 0 \/ mora_end_index > Len(moras)
            THEN Raise(h0, "ValueError", "Invalid mora range")
            ELSE IF HasValues(entry.pitch_values)
                    /\ CountMismatch(entry.pitch_values, target_mora_count)
            THEN Raise(h0, "ValueError", "mora count mismatch")
            ELSE
            LET moras1 == IF HasValues(entry.pitch_values)
                          THEN WritePitch(moras, mora_start_index, entry.pitch_values.values)
                          ELSE moras
                h1 == StoreMoras(h0, result, p, moras1)
            IN  IF HasValues(entry.length_values)
                   /\ CountMismatch(entry.length_values, target_mora_count)
                THEN \* raised after the pitch values were written into the copy
                     Raise(h1, "ValueError", "mora count mismatch")
                ELSE
                LET moras2 == IF HasValues(entry.length_values)
                              THEN WriteLength(moras1, mora_start_index, entry.length_values.values)
                              ELSE moras1
                IN  Return(StoreMoras(h1, result, p, moras2), result)

\* the moras of the accent phrases at positions from..Len, counted
RECURSIVE CountMoras(_, _)
CountMoras(accent_phrases, from) ==
    IF from > Len(accent_phrases) THEN 0
    ELSE Len(accent_phrases[from].moras) + CountMoras(accent_phrases, from + 1)

\* faulty variant: only the moras of the first accent phrase are counted
_get_total_mora_count_first(query) ==
    IF query.accent_phrases = <<>> THEN 0 ELSE Len(query.accent_phrases[1].moras)

\* _get_total_mora_count(audio_query)
_get_total_mora_count(query) == CountMoras(query.accent_phrases, 1)

\* faulty variant: the moras before start_mora_index are not skipped
WriteHere_no_skip(mora_idx, value_idx, values, start_mora_index) ==
    value_idx < Len(values)

\* `if mora_idx >= start_mora_index and value_idx < len(pitch_values):`
WriteHere(mora_idx, value_idx, values, start_mora_index) ==
    mora_idx >= start_mora_index /\ value_idx < Len(values)

\* `for mora in phrase.get("moras", []):` from position k on; `field` is
\* "pitch" or "vowel_length". Gives the moras and the counters after the loop.
RECURSIVE WalkMoras(_, _, _, _, _, _, _)
WalkMoras(moras, k, mora_idx, value_idx, values, start_mora_index, field) ==
    IF k > Len(moras)
    THEN [moras |-> moras, mora_idx |-> mora_idx, value_idx |-> value_idx]
    ELSE IF WriteHere(mora_idx, value_idx, values, start_mora_index)
    THEN WalkMoras([moras EXCEPT ![k][field] = values[value_idx + 1]], k + 1,
                   mora_idx + 1, value_idx + 1, values, start_mora_index, field)
    ELSE WalkMoras(moras, k + 1, mora_idx + 1, value_idx, values, start_mora_index, field)

\* `for phrase in modified_query.get("accent_phrases", []):` from position p on
RECURSIVE WalkPhrases(_, _, _, _, _, _, _)
WalkPhrases(accent_phrases, p, mora_idx, value_idx, values, start_mora_index, field) ==
    IF p > Len(accent_phrases) THEN accent_phrases
    ELSE
    LET walked == WalkMoras(accent_phrases[p].moras, 1, mora_idx, value_idx,
                            values, start_mora_index, field)
    IN  WalkPhrases([accent_phrases EXCEPT ![p].moras = walked.moras], p + 1,
                    walked.mora_idx, walked.value_idx, values, start_mora_index, field)

\* the body shared by apply_pitch_values and apply_length_values, which
\* differ in the field they write
ApplyValues(h, ref, values, start_mora_index, field) ==
    IF values = <<>>
    THEN LET copy == _deep_copy_query(h, ref)
         IN  Return(copy.heap, copy.ref)
    ELSE
    LET copy == _deep_copy_query(h, ref)
        modified_query_ == copy.ref
        total_moras == _get_total_mora_count(copy.heap[modified_query_])
        available_moras == total_moras - start_mora_index
    IN  IF Len(values) # available_moras
        THEN Raise(copy.heap, "ValueError", "mora count mismatch")
        ELSE Return([copy.heap EXCEPT ![modified_query_].accent_phrases =
                        WalkPhrases(@, 1, 0, 0, values, start_mora_index, field)],
                    modified_query_)

\* apply_pitch_values(audio_query, pitch_values, start_mora_index)
apply_pitch_values(h, ref, pitch_values, start_mora_index) ==
    ApplyValues(h, ref, pitch_values, start_mora_index, "pitch")

\* apply_length_values(audio_query, length_values, start_mora_index)
apply_length_values(h, ref, length_values, start_mora_index) ==
    ApplyValues(h, ref, length_values, start_mora_index, "vowel_length")

\* the local variable `result` is bound to another object: the object it
\* named before is unreachable
Rebind(h, old, new) == IF new = old THEN h ELSE [h EXCEPT ![old] = Null]

\* faulty variant: the values are applied from the start of the query
start_mora_index_zero(match_result) == 0

\* match_result.get("start_mora_index", 0)
start_mora_index_of(match_result) ==
    IF "start_mora_index" \in DOMAIN match_result
    THEN match_result.start_mora_index
    ELSE 0

\* apply_extended_dict(audio_query, entry, match_result)
apply_extended_dict(h, ref, entry, match_result) ==
    LET start_mora_index == start_mora_index_of(match_result)
        copy == _deep_copy_query(h, ref)
        with_pitch ==
            IF HasValues(entry.pitch_values)
            THEN apply_pitch_values(copy.heap, copy.ref, entry.pitch_values.values,
                                    start_mora_index)
            ELSE Return(copy.heap, copy.ref)
    IN  IF with_pitch.status # "ok" THEN with_pitch
        ELSE
        LET h1 == Rebind(with_pitch.heap, copy.ref, with_pitch.ref)
            with_length ==
                IF HasValues(entry.length_values)
                THEN apply_length_values(h1, with_pitch.ref, entry.length_values.values,
                                         start_mora_index)
                ELSE Return(h1, with_pitch.ref)
        IN  IF with_length.status # "ok" THEN with_length
            ELSE Return(Rebind(with_length.heap, with_pitch.ref, with_length.ref),
                        with_length.ref)

----------------------------------------------------------------------------
(* Inputs of the overlay engine *)

\* the queries the overlay is tried on: up to MaxPhrases accent phrases of
\* up to MaxMoras moras, as the engine produces them
PlainMoras(n) == [k \in 1..n |-> Mora(<<"a">>, k)]

PlainPhrases == {AccentPhrase(PlainMoras(n)) : n \in 0..MaxMoras}

PlainQueries ==
    UNION {{AudioQuery(ps) : ps \in [1..n -> PlainPhrases]} : n \in 0..MaxPhrases}

\* Optional[List[float]]: None, [], or a list of 1..MaxValues values
ValueLists(base) ==
    {None} \cup {Some([i \in 1..n |-> base + i - 1]) : n \in 0..MaxValues}

OverlayEntries ==
    {ExtendedDictEntry(<<"w">>, <<"a">>, pv, lv) :
        pv \in ValueLists(60), lv \in ValueLists(20)}

PhraseIndexes == (0 - MaxPhrases - 1)..MaxPhrases

\* list[float] for the whole query: up to one value more than it has moras
WholeValueLists(base) ==
    {[i \in 1..n |-> base + i - 1] : n \in 0..(MaxPhrases * MaxMoras + 1)}

\* start_mora_index: int
StartIndexes == (0 - 1)..(MaxPhrases * MaxMoras + 1)

MoraIndexes == (0 - 1)..(MaxMoras + 1)

\* match_result: a dict with the keys start_mora_index and end_mora_index,
\* or without the first
MatchDicts ==
    {[start_mora_index |-> s, end_mora_index |-> e] :
        s \in StartIndexes, e \in {0, MaxPhrases * MaxMoras}}
    \cup {[end_mora_index |-> e] : e \in {0, MaxPhrases * MaxMoras}}

----------------------------------------------------------------------------
(* No request is being handled *)

NoRequest ==
    /\ endpoint = "none"
    /\ modified_query = 0
    /\ match_index = 0
    /\ applied_entries = <<>>
    /\ engine = <<>>
    /\ closed = 0
    /\ applied = 0
    /\ response = NoResponse

\* the dictionary routes are not in use
NoStore ==
    /\ dict_file = NoFile
    /\ file_before = NoFile
    /\ started_distinct = TRUE

----------------------------------------------------------------------------
(* The caller of the overlay engine *)

InitOverlay ==
    /\ pc = "ready"
    /\ \E q \in PlainQueries :
          /\ heap = [r \in Refs |-> IF r = 1 THEN q ELSE Null]
          /\ original = q
    /\ audio_query = 1
    /\ call = NoCall
    /\ ret = NoRet
    /\ entries = <<>>
    /\ input_text = <<>>
    /\ results = <<>>
    /\ previous = <<>>
    /\ NoRequest
    /\ NoStore

\* result = AudioQueryService.apply_partial_match(audio_query, entry, i, s, e)
CallApplyPartialMatch ==
    /\ pc = "ready"
    /\ \E entry \in OverlayEntries, i \in PhraseIndexes, s \in MoraIndexes, e \in MoraIndexes :
          LET out == apply_partial_match(heap, audio_query, entry, i, s, e)
          IN  /\ heap' = out.heap
              /\ ret' = [status |-> out.status, message |-> out.message, ref |-> out.ref]
              /\ call' = [op |-> "apply_partial_match", entry |-> entry,
                          accent_phrase_index |-> i,
                          mora_start_index |-> s, mora_end_index |-> e]
    /\ pc' = "returned"
    /\ UNCHANGED <<audio_query, original, entries, input_text, results, previous>>
    /\ UNCHANGED flow_vars
    /\ UNCHANGED store_vars

\* result = AudioQueryService.apply_pitch_values(audio_query, values, start)
CallApplyPitchValues ==
    /\ pc = "ready"
    /\ \E values \in WholeValueLists(60), start \in StartIndexes :
          LET out == apply_pitch_values(heap, audio_query, values, start)
          IN  /\ heap' = out.heap
              /\ ret' = [status |-> out.status, message |-> out.message, ref |-> out.ref]
              /\ call' = [op |-> "apply_pitch_values", field |-> "pitch",
                          values |-> values, start_mora_index |-> start]
    /\ pc' = "returned"
    /\ UNCHANGED <<audio_query, original, entries, input_text, results, previous>>
    /\ UNCHANGED flow_vars
    /\ UNCHANGED store_vars

\* result = AudioQueryService.apply_length_values(audio_query, values, start)
CallApplyLengthValues ==
    /\ pc = "ready"
    /\ \E values \in WholeValueLists(20), start \in StartIndexes :
          LET out == apply_length_values(heap, audio_query, values, start)
          IN  /\ heap' = out.heap
              /\ ret' = [status |-> out.status, message |-> out.message, ref |-> out.ref]
              /\ call' = [op |-> "apply_length_values", field |-> "vowel_length",
                          values |-> values, start_mora_index |-> start]
    /\ pc' = "returned"
    /\ UNCHANGED <<audio_query, original, entries, input_text, results, previous>>
    /\ UNCHANGED flow_vars
    /\ UNCHANGED store_vars

\* result = AudioQueryService.apply_extended_dict(audio_query, entry, match_result)
CallApplyExtendedDict ==
    /\ pc = "ready"
    /\ \E entry \in OverlayEntries, match_result \in MatchDicts :
          LET out == apply_extended_dict(heap, audio_query, entry, match_result)
          IN  /\ heap' = out.heap
              /\ ret' = [status |-> out.status, message |-> out.message, ref |-> out.ref]
              /\ call' = [op |-> "apply_extended_dict", entry |-> entry,
                          match_result |-> match_result]
    /\ pc' = "returned"
    /\ UNCHANGED <<audio_query, original, entries, input_text, results, previous>>
    /\ UNCHANGED flow_vars
    /\ UNCHANGED store_vars

\* the caller changes the query it was handed back
MutateResult ==
    /\ pc = "returned"
    /\ ret.status = "ok"
    /\ heap' = [heap EXCEPT ![ret.ref].speedScale = 99,
                            ![ret.ref].accent_phrases = <<>>]
    /\ pc' = "mutated"
    /\ UNCHANGED <<audio_query, call, ret, original, entries, input_text, results, previous>>
    /\ UNCHANGED flow_vars
    /\ UNCHANGED store_vars

\* the three functions that take a query and the values to lay over it
EngineOps == {"apply_partial_match", "apply_pitch_values", "apply_length_values"}

\* the arguments of a second call: an entry with one pitch and one length,
\* lists of one or two values, the first positions
SecondEntries == {ExtendedDictEntry(<<"w">>, <<"a">>, Some(<<70>>), Some(<<30>>))}

SecondIndexes == {0, 1}

SecondValueLists(base) == {<<base>>, <<base, base + 1>>}

\* result = AudioQueryService.apply_partial_match(result, entry, i, s, s + 1),
\* or apply_pitch_values(result, values, start), or
\* apply_length_values(result, values, start): a second call, on the query
\* the first one handed back
CallOnResult ==
    /\ pc = "returned"
    /\ ret.status = "ok"
    /\ call.op \in EngineOps
    /\ \/ \E entry \in SecondEntries, i \in SecondIndexes, s \in SecondIndexes :
             LET out == apply_partial_match(heap, ret.ref, entry, i, s, s + 1)
             IN  /\ heap' = out.heap
                 /\ ret' = [status |-> out.status, message |-> out.message, ref |-> out.ref]
                 /\ call' = [op |-> "apply_partial_match", entry |-> entry,
                             accent_phrase_index |-> i,
                             mora_start_index |-> s, mora_end_index |-> s + 1]
       \/ \E values \in SecondValueLists(70), start \in StartIndexes :
             LET out == apply_pitch_values(heap, ret.ref, values, start)
             IN  /\ heap' = out.heap
                 /\ ret' = [status |-> out.status, message |-> out.message, ref |-> out.ref]
                 /\ call' = [op |-> "apply_pitch_values", field |-> "pitch",
                             values |-> values, start_mora_index |-> start]
       \/ \E values \in SecondValueLists(30), start \in StartIndexes :
             LET out == apply_length_values(heap, ret.ref, values, start)
             IN  /\ heap' = out.heap
                 /\ ret' = [status |-> out.status, message |-> out.message, ref |-> out.ref]
                 /\ call' = [op |-> "apply_length_values", field |-> "vowel_length",
                             values |-> values, start_mora_index |-> start]
    /\ pc' = "returned_again"
    /\ UNCHANGED <<audio_query, original, entries, input_text, results, previous>>
    /\ UNCHANGED flow_vars
    /\ UNCHANGED store_vars

NextOverlay ==
    \/ CallApplyPartialMatch
    \/ CallApplyPitchValues
    \/ CallApplyLengthValues
    \/ CallApplyExtendedDict
    \/ MutateResult
    \/ CallOnResult

SpecOverlay == InitOverlay /\ [][NextOverlay]_vars

----------------------------------------------------------------------------
(* DictionaryMatcher *)

\* MatchResult. `entry` is a reference to the entry object: its position in
\* the entry list the matcher was given.
MatchResult(entry, accent_phrase_index, mora_start_index, mora_end_index) ==
    [entry |-> entry, accent_phrase_index |-> accent_phrase_index,
     mora_start_index |-> mora_start_index, mora_end_index |-> mora_end_index]

\* [mora.get("text", "") for mora in moras]
MoraTexts(moras) == [k \in 1..Len(moras) |-> moras[k].text]

\* the positions from..Len at which `keep` (a sequence of booleans) is
\* TRUE, in increasing order: the entries (references) a filter keeps
RECURSIVE SelectEntries(_, _)
SelectEntries(keep, from) ==
    IF from > Len(keep) THEN <<>>
    ELSE (IF keep[from] THEN <<from>> ELSE <<>>) \o SelectEntries(keep, from + 1)

\* faulty variant: a later entry with the same pronunciation replaces the
\* earlier one in the dict
pronunciation_to_entries_last(es, pronunciation) ==
    LET same == [k \in 1..Len(es) |-> es[k].pronunciation = pronunciation]
        all == SelectEntries(same, 1)
    IN  IF all = <<>> THEN <<>> ELSE <<all[Len(all)]>>

\* faulty variant: the entries of a pronunciation are kept latest first
pronunciation_to_entries_reversed(es, pronunciation) ==
    LET same == [k \in 1..Len(es) |-> es[k].pronunciation = pronunciation]
        all == SelectEntries(same, 1)
    IN  [k \in 1..Len(all) |-> all[Len(all) + 1 - k]]

\* pronunciation_to_entries[pronunciation]: the entries with that
\* pronunciation, in entry-list order (empty: the key is not in the dict)
pronunciation_to_entries(es, pronunciation) ==
    LET same == [k \in 1..Len(es) |-> es[k].pronunciation = pronunciation]
    IN  SelectEntries(same, 1)

\* the results find_matches appends for the accent phrases at positions
\* from..Len (phrase_index = position - 1)
RECURSIVE ExactPhrases(_, _, _)
ExactPhrases(accent_phrases, es, from) ==
    IF from > Len(accent_phrases) THEN <<>>
    ELSE
    LET moras == accent_phrases[from].moras
        phrase_pronunciation == Join(MoraTexts(moras))
        found == pronunciation_to_entries(es, phrase_pronunciation)
        here == IF moras = <<>> THEN <<>>
                ELSE [k \in 1..Len(found) |->
                         MatchResult(found[k], from - 1, 0, Len(moras))]
    IN  here \o ExactPhrases(accent_phrases, es, from + 1)

\* find_matches(audio_query, entries)
find_matches(query, es) ==
    IF es = <<>> THEN <<>>
    ELSE IF query.accent_phrases = <<>> THEN <<>>
    ELSE ExactPhrases(query.accent_phrases, es, 1)

\* faulty variant: every entry survives the filter
filtered_entries_all(es, text) ==
    LET any == [k \in 1..Len(es) |-> TRUE]
    IN  SelectEntries(any, 1)

\* [e for e in entries if e.word in input_text]
filtered_entries(es, text) ==
    LET in_text == [k \in 1..Len(es) |-> Contains(es[k].word, text)]
    IN  SelectEntries(in_text, 1)

\* for i, text in enumerate(mora_texts):
\*     if char_count == pos: mora_start = i; break
\*     char_count += len(text)
\* mora_start keeps its initial 0 when the loop ends without a break
RECURSIVE MoraStartLoop(_, _, _, _)
MoraStartLoop(mora_texts, pos, i, char_count) ==
    IF i >= Len(mora_texts) THEN 0
    ELSE IF char_count = pos THEN i
    ELSE MoraStartLoop(mora_texts, pos, i + 1, char_count + Len(mora_texts[i + 1]))

\* faulty variant: the range ends after its first mora
MoraEndLoop_single(mora_texts, pronunciation, i, match_char_count, mora_end) ==
    IF i >= Len(mora_texts) THEN mora_end ELSE i + 1

\* faulty variant: the range has one mora for each character
MoraEndLoop_per_character(mora_texts, pronunciation, i, match_char_count, mora_end) ==
    i + Len(pronunciation)

\* for i in range(mora_start, len(mora_texts)):
\*     match_char_count += len(mora_texts[i]); mora_end = i + 1
\*     if match_char_count >= len(pronunciation): break
RECURSIVE MoraEndLoop(_, _, _, _, _)
MoraEndLoop(mora_texts, pronunciation, i, match_char_count, mora_end) ==
    IF i >= Len(mora_texts) THEN mora_end
    ELSE
    LET count == match_char_count + Len(mora_texts[i + 1])
    IN  IF count >= Len(pronunciation) THEN i + 1
        ELSE MoraEndLoop(mora_texts, pronunciation, i + 1, count, i + 1)

\* faulty variant: the candidate range is accepted as it is
MatchVerified_any(matched_pronunciation, pronunciation) == TRUE

\* `if matched_pronunciation == pronunciation:`
MatchVerified(matched_pronunciation, pronunciation) ==
    matched_pronunciation = pronunciation

\* the `while True` loop of find_matches_with_text from search_start on: the
\* results appended for one entry in one accent phrase
RECURSIVE ScanPhrase(_, _, _, _, _)
ScanPhrase(mora_texts, es, entry, phrase_index, search_start) ==
    LET pronunciation == es[entry].pronunciation
        phrase_pronunciation == Join(mora_texts)
        pos == Find(phrase_pronunciation, pronunciation, search_start)
    IN  IF pos = 0 - 1 THEN <<>>
        ELSE
        LET mora_start == MoraStartLoop(mora_texts, pos, 0, 0)
            mora_end == MoraEndLoop(mora_texts, pronunciation, mora_start, 0, mora_start)
            matched_pronunciation == Join(Slice(mora_texts, mora_start, mora_end))
            here == IF MatchVerified(matched_pronunciation, pronunciation)
                    THEN <<MatchResult(entry, phrase_index, mora_start, mora_end)>>
                    ELSE <<>>
        IN  here \o ScanPhrase(mora_texts, es, entry, phrase_index,
                               pos + Len(pronunciation))

\* `for entry in filtered_entries:` from position `from` of the filtered list
RECURSIVE ScanEntries(_, _, _, _, _)
ScanEntries(mora_texts, es, filtered, phrase_index, from) ==
    IF from > Len(filtered) THEN <<>>
    ELSE
    LET here == IF es[filtered[from]].pronunciation = <<>> THEN <<>>
                ELSE ScanPhrase(mora_texts, es, filtered[from], phrase_index, 0)
    IN  here \o ScanEntries(mora_texts, es, filtered, phrase_index, from + 1)

\* faulty variant: the scan runs over the moras of all accent phrases at once
PartialPhrases_joined(accent_phrases, es, filtered, from) ==
    LET all == Join([k \in 1..Len(accent_phrases) |-> MoraTexts(accent_phrases[k].moras)])
    IN  IF all = <<>> THEN <<>> ELSE ScanEntries(all, es, filtered, 0, 1)

\* `for phrase_index, accent_phrase in enumerate(accent_phrases):`
RECURSIVE PartialPhrases(_, _, _, _)
PartialPhrases(accent_phrases, es, filtered, from) ==
    IF from > Len(accent_phrases) THEN <<>>
    ELSE
    LET moras == accent_phrases[from].moras
        here == IF moras = <<>> THEN <<>>
                ELSE ScanEntries(MoraTexts(moras), es, filtered, from - 1, 1)
    IN  here \o PartialPhrases(accent_phrases, es, filtered, from + 1)

\* find_matches_with_text(audio_query, entries, input_text)
find_matches_with_text(query, es, text) ==
    IF es = <<>> \/ text = <<>> THEN <<>>
    ELSE IF query.accent_phrases = <<>> THEN <<>>
    ELSE
    LET filtered == filtered_entries(es, text)
    IN  IF filtered = <<>> THEN <<>>
        ELSE PartialPhrases(query.accent_phrases, es, filtered, 1)

----------------------------------------------------------------------------
(* Inputs of the matcher *)

\* mora texts: one character, or two (as the engine's "kya")
MoraTextSet == {<<"a">>, <<"b">>, <<"b", "a">>}

\* the sequences of n elements of S
SeqsOfLen(S, n) == [1..n -> S]

\* the ways to split t moras over n accent phrases (an accent phrase may be empty)
RECURSIVE Splits(_, _)
Splits(n, t) ==
    IF n = 0 THEN (IF t = 0 THEN {<<>>} ELSE {})
    ELSE UNION {{<<k>> \o rest : rest \in Splits(n - 1, t - k)} : k \in 0..t}

\* the flat mora list `texts` cut into accent phrases of the lengths `split`
RECURSIVE CutPhrases(_, _, _)
CutPhrases(texts, split, done) ==
    IF split = <<>> THEN <<>>
    ELSE <<AccentPhrase([k \in 1..Head(split) |-> Mora(texts[done + k], k)])>>
         \o CutPhrases(texts, Tail(split), done + Head(split))

TextQueries ==
    UNION {UNION {{AudioQuery(CutPhrases(texts, split, 0)) :
                      texts \in SeqsOfLen(MoraTextSet, t), split \in Splits(n, t)} :
                  t \in 0..MaxMatchMoras} :
           n \in 0..MaxMatchPhrases}

Words == {<<"w">>, <<"v", "w">>}

Pronunciations == {<<"a">>, <<"a", "b">>, <<"b", "a">>}

\* the (word, pronunciation) pairs of the dictionary: both words are read
\* "a", and each has a reading of its own
WordPronunciations ==
    {wp \in Words \X Pronunciations :
        \/ wp[2] = <<"a">>
        \/ wp = <<<<"w">>, <<"a", "b">>>>
        \/ wp = <<<<"v", "w">>, <<"b", "a">>>>}

MatcherEntries ==
    {ExtendedDictEntry(wp[1], wp[2], None, None) : wp \in WordPronunciations}

EntryLists == UNION {SeqsOfLen(MatcherEntries, n) : n \in 0..MaxEntries}

InputTexts == {<<>>, <<"w">>, <<"v", "w">>}

----------------------------------------------------------------------------
(* The caller of the matcher *)

InitMatcher ==
    /\ pc = "ready"
    /\ \E q \in TextQueries :
          /\ heap = [r \in Refs |-> IF r = 1 THEN q ELSE Null]
          /\ original = q
    /\ audio_query = 1
    /\ call = NoCall
    /\ ret = NoRet
    /\ entries = <<>>
    /\ input_text = <<>>
    /\ results = <<>>
    /\ previous = <<>>
    /\ NoRequest
    /\ NoStore

\* results = matcher.find_matches(audio_query, entries)
CallFindMatches ==
    /\ pc = "ready"
    /\ \E es \in EntryLists :
          /\ entries' = es
          /\ results' = find_matches(heap[audio_query], es)
    /\ call' = [op |-> "find_matches"]
    /\ pc' = "matched"
    /\ UNCHANGED <<heap, audio_query, ret, original, input_text, previous>>
    /\ UNCHANGED flow_vars
    /\ UNCHANGED store_vars

\* results = matcher.find_matches_with_text(audio_query, entries, input_text)
CallFindMatchesWithText ==
    /\ pc = "ready"
    /\ \E es \in EntryLists, text \in InputTexts :
          /\ entries' = es
          /\ input_text' = text
          /\ results' = find_matches_with_text(heap[audio_query], es, text)
    /\ call' = [op |-> "find_matches_with_text"]
    /\ pc' = "matched"
    /\ UNCHANGED <<heap, audio_query, ret, original, previous>>
    /\ UNCHANGED flow_vars
    /\ UNCHANGED store_vars

\* results = matcher.find_matches(audio_query, entries), once more on the
\* same query and the same entry list
CallFindMatchesAgain ==
    /\ pc = "matched"
    /\ call.op = "find_matches"
    /\ previous' = results
    /\ results' = find_matches(heap[audio_query], entries)
    /\ pc' = "rematched"
    /\ UNCHANGED <<heap, audio_query, call, ret, original, entries, input_text>>
    /\ UNCHANGED flow_vars
    /\ UNCHANGED store_vars

\* results = matcher.find_matches_with_text(audio_query, entries, text) on
\* the query and the entry list find_matches was just given
CallFindMatchesWithTextAfter ==
    /\ pc = "matched"
    /\ call.op = "find_matches"
    /\ previous' = results
    /\ \E text \in InputTexts :
          /\ input_text' = text
          /\ results' = find_matches_with_text(heap[audio_query], entries, text)
    /\ pc' = "compared"
    /\ UNCHANGED <<heap, audio_query, call, ret, original, entries>>
    /\ UNCHANGED flow_vars
    /\ UNCHANGED store_vars

NextMatcher ==
    \/ CallFindMatches
    \/ CallFindMatchesWithText
    \/ CallFindMatchesAgain
    \/ CallFindMatchesWithTextAfter

SpecMatcher == InitMatcher /\ [][NextMatcher]_vars

----------------------------------------------------------------------------
(* Inputs of the request handlers *)

\* most entries in the dictionary a request handler loads
MaxFlowEntries == 2

\* the AudioQuery of a request: what the engine answers, or what the caller
\* of the apply-only endpoint sends
FlowQueries ==
    {AudioQuery(CutPhrases(ts[1], ts[2], 0)) :
        ts \in {<<<<>>, <<>>>>,
                <<<<<<"a">>, <<"b">>>>, <<2>>>>,
                <<<<<<"a">>, <<"a">>, <<"b">>>>, <<1, 2>>>>,
                <<<<<<"a">>, <<"a">>, <<"b">>>>, <<3>>>>,
                <<<<<<"a">>, <<"b", "a">>>>, <<2>>>>}}

\* request.text
FlowTexts == {<<"w">>, <<"v", "w">>}

\* the pitch_values and length_values of the entries of the dictionary
\* file: lists of one or two values, or no list
FlowValues(p, l) ==
    {<<Some(<<p>>), Some(<<l>>)>>, <<Some(<<p, p + 1>>), Some(<<l, l + 1>>)>>,
     <<Some(<<p>>), Some(<<l, l + 1>>)>>, <<None, Some(<<l>>)>>}

FlowEntries ==
    {ExtendedDictEntry(<<"w">>, <<"a">>, v[1], v[2]) : v \in FlowValues(60, 20)}
    \cup {ExtendedDictEntry(<<"v", "w">>, <<"a", "b">>, v[1], v[2]) : v \in FlowValues(70, 30)}

\* what load_dictionary() returns
FlowDictionaries == UNION {SeqsOfLen(FlowEntries, n) : n \in 0..MaxFlowEntries}

----------------------------------------------------------------------------
(* The request handlers: synthesize, synthesize/debug, synthesize/apply *)

\* the endpoints that take a text and ask the engine for its AudioQuery
TextEndpoints == {"synthesize", "debug"}

\* the endpoints that ask the engine one question and answer with it
ProbeEndpoints == {"health", "version", "speakers"}

\* the endpoints that open a VoicevoxClient
ClientEndpoints == TextEndpoints \cup {"preview"} \cup ProbeEndpoints

\* what the engine answers to GET /version: a JSON string, or a bare text
VersionTexts == {<<"\"", "0", ".", "1", "\"">>, <<"0", ".", "2">>}

\* what the engine answers to GET /speakers
SpeakerLists == {<<>>, <<"zundamon">>}

\* text.strip(ch): the characters ch at both ends of the text are dropped
RECURSIVE Strip(_, _)
Strip(text, ch) ==
    IF text = <<>> THEN text
    ELSE IF Head(text) = ch THEN Strip(Tail(text), ch)
    ELSE IF text[Len(text)] = ch THEN Strip(SubSeq(text, 1, Len(text) - 1), ch)
    ELSE text

\* VoicevoxClient.get_version: response.text.strip('"')
get_version(text) == Strip(text, "\"")

\* an object no reference leads to is collected
Collect(h, live) == [r \in Refs |-> IF r \in live THEN h[r] ELSE Null]

\* faulty variant: the header counts the entries that matched
MatchesFound_entries(matches) ==
    Cardinality({matches[k].entry : k \in 1..Len(matches)})

\* "X-Matches-Found": str(len(matches)) / matches_found=len(matches)
MatchesFound(matches) == Len(matches)

\* faulty variant: the engine failure is answered with an empty audio
ServiceUnavailable_empty_audio ==
    [status |-> 200, kind |-> "audio", query |-> Null, matches_found |-> 0,
     applied_entries |-> <<>>]

\* raise HTTPException(status_code=503, detail="VOICEVOX Engine is not available: ...")
ServiceUnavailable ==
    [status |-> 503, kind |-> "error", query |-> Null, matches_found |-> 0,
     applied_entries |-> <<>>]

\* faulty variant: the fallback answers with the running query
Fallback_running(h, request_audio_query, running) ==
    [status |-> 200, kind |-> "apply",
     query |-> IF running = 0 THEN h[request_audio_query] ELSE h[running],
     matches_found |-> 0, applied_entries |-> <<>>]

\* ApplyDictionaryResponse(audio_query=request.audio_query, matches_found=0,
\*                         applied_entries=[])
Fallback(h, request_audio_query, running) ==
    [status |-> 200, kind |-> "apply", query |-> h[request_audio_query],
     matches_found |-> 0, applied_entries |-> <<>>]

\* faulty variant: the health probe passes the failure on as an error
Unhealthy_propagated ==
    [status |-> 503, kind |-> "error", body |-> [status |-> "unhealthy", error |-> "Exception"]]

\* return {"status": "unhealthy", "error": str(e)}
Unhealthy ==
    [status |-> 200, kind |-> "health", body |-> [status |-> "unhealthy", error |-> "Exception"]]

\* return {"status": "healthy", "voicevox_version": version,
\*         "dictionary_entries": len(load_dictionary())}
Healthy(version, es) ==
    [status |-> 200, kind |-> "health",
     body |-> [status |-> "healthy", voicevox_version |-> version,
               dictionary_entries |-> Len(es)]]

\* what a handler answers when an exception reaches its `except Exception`
OnException(ep, h, request_audio_query, running) ==
    IF ep = "health" THEN Unhealthy
    ELSE IF ep \in ClientEndpoints THEN ServiceUnavailable
    ELSE Fallback(h, request_audio_query, running)

\* faulty variant: the client is closed on the success path only
AfterAnswer_no_finally(ep) == "done"

\* where a handler goes once its answer is decided: to the `finally` that
\* closes the client, or straight out
AfterAnswer(ep) == IF ep \in ClientEndpoints THEN "closing" ELSE "done"

InitFlow ==
    /\ pc = "idle"
    /\ heap = [r \in Refs |-> Null]
    /\ audio_query = 0
    /\ original = Null
    /\ call = NoCall
    /\ ret = NoRet
    /\ entries = <<>>
    /\ input_text = <<>>
    /\ results = <<>>
    /\ previous = <<>>
    /\ NoRequest
    /\ NoStore

\* POST /synthesize or /synthesize/debug {text, speaker}:
\* client = VoicevoxClient(); matcher = DictionaryMatcher()
Receive ==
    /\ pc = "idle"
    /\ \E ep \in TextEndpoints, text \in FlowTexts :
          /\ endpoint' = ep
          /\ input_text' = text
    /\ pc' = "create_audio_query"
    /\ UNCHANGED <<heap, audio_query, call, ret, original, entries, results, previous>>
    /\ UNCHANGED <<modified_query, match_index, applied_entries, engine, closed,
                   applied, response>>
    /\ UNCHANGED store_vars

\* POST /synthesize/apply {audio_query, text, speaker}
ReceiveApply ==
    /\ pc = "idle"
    /\ \E q \in FlowQueries, text \in FlowTexts :
          /\ heap' = [heap EXCEPT ![1] = q]
          /\ original' = q
          /\ input_text' = text
    /\ endpoint' = "apply"
    /\ audio_query' = 1
    /\ pc' = "load"
    /\ UNCHANGED <<call, ret, entries, results, previous>>
    /\ UNCHANGED <<modified_query, match_index, applied_entries, engine, closed,
                   applied, response>>
    /\ UNCHANGED store_vars

\* audio_query = await client.create_audio_query(request.text, request.speaker)
CreateAudioQuery ==
    /\ pc = "create_audio_query"
    /\ \E q \in FlowQueries :
          /\ heap' = [heap EXCEPT ![1] = q]
          /\ original' = q
    /\ audio_query' = 1
    /\ engine' = Append(engine, [op |-> "audio_query", ok |-> TRUE])
    /\ pc' = "load"
    /\ UNCHANGED <<call, ret, entries, input_text, results, previous>>
    /\ UNCHANGED <<endpoint, modified_query, match_index, applied_entries, closed,
                   applied, response>>
    /\ UNCHANGED store_vars

\* client.create_audio_query raises: the engine is unreachable or refuses
CreateAudioQueryFails ==
    /\ pc = "create_audio_query"
    /\ engine' = Append(engine, [op |-> "audio_query", ok |-> FALSE])
    /\ ret' = [status |-> "Exception", message |-> "create_audio_query", ref |-> 0]
    /\ response' = OnException(endpoint, heap, audio_query, modified_query)
    /\ pc' = AfterAnswer(endpoint)
    /\ UNCHANGED <<heap, audio_query, call, original, entries, input_text, results, previous>>
    /\ UNCHANGED <<endpoint, modified_query, match_index, applied_entries, closed, applied>>
    /\ UNCHANGED store_vars

\* entries = load_dictionary()
\* matches = matcher.find_matches_with_text(audio_query, entries, request.text)
\* modified_query = audio_query
\* (the apply-only handler answers at once when the dictionary is empty)
LoadAndMatch ==
    /\ pc = "load"
    /\ \E es \in FlowDictionaries :
          /\ entries' = es
          /\ IF endpoint = "apply" /\ es = <<>>
             THEN /\ response' = Fallback(heap, audio_query, modified_query)
                  /\ pc' = "done"
                  /\ UNCHANGED <<results, modified_query>>
             ELSE /\ results' = find_matches_with_text(heap[audio_query], es, input_text)
                  /\ modified_query' = audio_query
                  /\ pc' = "apply_loop"
                  /\ UNCHANGED response
    /\ UNCHANGED <<heap, audio_query, call, ret, original, input_text, previous>>
    /\ UNCHANGED <<endpoint, match_index, applied_entries, engine, closed, applied>>
    /\ UNCHANGED store_vars

\* load_dictionary() raises: the file cannot be read, is not JSON, or holds
\* a record that is not an ExtendedDictEntry
LoadDictionaryFails ==
    /\ pc = "load"
    /\ ret' = [status |-> "Exception", message |-> "load_dictionary", ref |-> 0]
    /\ response' = OnException(endpoint, heap, audio_query, modified_query)
    /\ pc' = AfterAnswer(endpoint)
    /\ UNCHANGED <<heap, audio_query, call, original, entries, input_text, results, previous>>
    /\ UNCHANGED <<endpoint, modified_query, match_index, applied_entries, engine,
                   closed, applied>>
    /\ UNCHANGED store_vars

\* matcher.find_matches_with_text raises on the query the caller of the
\* apply-only endpoint sent: request.audio_query is any dict, and the
\* matcher reads it as a dict of lists of dicts (AttributeError, TypeError)
MatcherFails ==
    /\ pc = "load"
    /\ endpoint = "apply"
    /\ \E es \in FlowDictionaries :
          /\ es # <<>>
          /\ entries' = es
    /\ ret' = [status |-> "Exception", message |-> "find_matches_with_text", ref |-> 0]
    /\ response' = OnException(endpoint, heap, audio_query, modified_query)
    /\ pc' = AfterAnswer(endpoint)
    /\ UNCHANGED <<heap, audio_query, call, original, input_text, results, previous>>
    /\ UNCHANGED <<endpoint, modified_query, match_index, applied_entries, engine,
                   closed, applied>>
    /\ UNCHANGED store_vars

\* one iteration of `for match in matches:`
\*     try: modified_query = AudioQueryService.apply_partial_match(...)
\*          applied_entries.append(match.entry.word)      (apply-only handler)
\*     except ValueError: continue
\* any other exception leaves the loop for the handler's `except Exception`
ApplyNextMatch ==
    /\ pc = "apply_loop"
    /\ match_index < Len(results)
    /\ LET match == results[match_index + 1]
           out == apply_partial_match(heap, modified_query, entries[match.entry],
                                      match.accent_phrase_index,
                                      match.mora_start_index, match.mora_end_index)
       IN  /\ ret' = [status |-> out.status, message |-> out.message, ref |-> out.ref]
           /\ call' = [op |-> "apply_partial_match", entry |-> entries[match.entry],
                       accent_phrase_index |-> match.accent_phrase_index,
                       mora_start_index |-> match.mora_start_index,
                       mora_end_index |-> match.mora_end_index]
           /\ IF out.status = "ok"
              THEN /\ modified_query' = out.ref
                   /\ heap' = Collect(out.heap, {audio_query, out.ref})
                   /\ applied' = applied + 1
                   /\ applied_entries' =
                         IF endpoint = "apply"
                         THEN Append(applied_entries, entries[match.entry].word)
                         ELSE applied_entries
                   /\ pc' = "apply_loop"
                   /\ UNCHANGED response
              ELSE IF out.status = "ValueError"
              THEN /\ heap' = Collect(out.heap, {audio_query, modified_query})
                   /\ pc' = "apply_loop"
                   /\ UNCHANGED <<modified_query, applied, applied_entries, response>>
              ELSE /\ heap' = Collect(out.heap, {audio_query, modified_query})
                   /\ response' = OnException(endpoint, out.heap, audio_query, modified_query)
                   /\ pc' = AfterAnswer(endpoint)
                   /\ UNCHANGED <<modified_query, applied, applied_entries>>
    /\ match_index' = match_index + 1
    /\ UNCHANGED <<audio_query, original, entries, input_text, results, previous>>
    /\ UNCHANGED <<endpoint, engine, closed>>
    /\ UNCHANGED store_vars

\* apply_partial_match raises something that is not a ValueError:
\* copy.deepcopy of the running query fails (MemoryError, RecursionError)
OverlayFails ==
    /\ pc = "apply_loop"
    /\ match_index < Len(results)
    /\ ret' = [status |-> "Exception", message |-> "deepcopy", ref |-> 0]
    /\ response' = OnException(endpoint, heap, audio_query, modified_query)
    /\ pc' = AfterAnswer(endpoint)
    /\ match_index' = match_index + 1
    /\ UNCHANGED <<heap, audio_query, call, original, entries, input_text, results, previous>>
    /\ UNCHANGED <<endpoint, modified_query, applied_entries, engine, closed, applied>>
    /\ UNCHANGED store_vars

\* return SynthesizeResponse(message=..., matches_found=len(matches),
\*                           modified_query=modified_query)
FinishDebug ==
    /\ pc = "apply_loop"
    /\ match_index = Len(results)
    /\ endpoint = "debug"
    /\ response' = [status |-> 200, kind |-> "debug", query |-> heap[modified_query],
                    matches_found |-> MatchesFound(results), applied_entries |-> <<>>]
    /\ pc' = "closing"
    /\ UNCHANGED <<heap, audio_query, call, ret, original, entries, input_text, results, previous>>
    /\ UNCHANGED <<endpoint, modified_query, match_index, applied_entries, engine,
                   closed, applied>>
    /\ UNCHANGED store_vars

\* return ApplyDictionaryResponse(audio_query=modified_query,
\*            matches_found=len(matches), applied_entries=applied_entries)
FinishApply ==
    /\ pc = "apply_loop"
    /\ match_index = Len(results)
    /\ endpoint = "apply"
    /\ response' = [status |-> 200, kind |-> "apply", query |-> heap[modified_query],
                    matches_found |-> MatchesFound(results),
                    applied_entries |-> applied_entries]
    /\ pc' = "done"
    /\ UNCHANGED <<heap, audio_query, call, ret, original, entries, input_text, results, previous>>
    /\ UNCHANGED <<endpoint, modified_query, match_index, applied_entries, engine,
                   closed, applied>>
    /\ UNCHANGED store_vars

\* audio_data = await client.synthesis(modified_query, request.speaker)
\* return Response(content=audio_data, headers={"X-Matches-Found": ...})
\* the audio stands as the query it was rendered from
Synthesis ==
    /\ pc = "apply_loop"
    /\ match_index = Len(results)
    /\ endpoint = "synthesize"
    /\ engine' = Append(engine, [op |-> "synthesis", ok |-> TRUE])
    /\ response' = [status |-> 200, kind |-> "audio", query |-> heap[modified_query],
                    matches_found |-> MatchesFound(results), applied_entries |-> <<>>]
    /\ pc' = "closing"
    /\ UNCHANGED <<heap, audio_query, call, ret, original, entries, input_text, results, previous>>
    /\ UNCHANGED <<endpoint, modified_query, match_index, applied_entries, closed, applied>>
    /\ UNCHANGED store_vars

\* client.synthesis raises
SynthesisFails ==
    /\ pc = "apply_loop"
    /\ match_index = Len(results)
    /\ endpoint = "synthesize"
    /\ engine' = Append(engine, [op |-> "synthesis", ok |-> FALSE])
    /\ ret' = [status |-> "Exception", message |-> "synthesis", ref |-> 0]
    /\ response' = OnException(endpoint, heap, audio_query, modified_query)
    /\ pc' = AfterAnswer(endpoint)
    /\ UNCHANGED <<heap, audio_query, call, original, entries, input_text, results, previous>>
    /\ UNCHANGED <<endpoint, modified_query, match_index, applied_entries, closed, applied>>
    /\ UNCHANGED store_vars

\* POST /synthesize/preview {audio_query, speaker}: client = VoicevoxClient()
ReceivePreview ==
    /\ pc = "idle"
    /\ \E q \in FlowQueries :
          /\ heap' = [heap EXCEPT ![1] = q]
          /\ original' = q
    /\ endpoint' = "preview"
    /\ audio_query' = 1
    /\ pc' = "preview"
    /\ UNCHANGED <<call, ret, entries, input_text, results, previous>>
    /\ UNCHANGED <<modified_query, match_index, applied_entries, engine, closed,
                   applied, response>>
    /\ UNCHANGED store_vars

\* audio_data = await client.synthesis(request.audio_query, request.speaker)
\* return Response(content=audio_data, media_type="audio/wav")
PreviewSynthesis ==
    /\ pc = "preview"
    /\ engine' = Append(engine, [op |-> "synthesis", ok |-> TRUE])
    /\ response' = [status |-> 200, kind |-> "audio", query |-> heap[audio_query]]
    /\ pc' = "closing"
    /\ UNCHANGED <<heap, audio_query, call, ret, original, entries, input_text, results, previous>>
    /\ UNCHANGED <<endpoint, modified_query, match_index, applied_entries, closed, applied>>
    /\ UNCHANGED store_vars

\* client.synthesis raises in the preview handler
PreviewSynthesisFails ==
    /\ pc = "preview"
    /\ engine' = Append(engine, [op |-> "synthesis", ok |-> FALSE])
    /\ ret' = [status |-> "Exception", message |-> "synthesis", ref |-> 0]
    /\ response' = OnException(endpoint, heap, audio_query, modified_query)
    /\ pc' = AfterAnswer(endpoint)
    /\ UNCHANGED <<heap, audio_query, call, original, entries, input_text, results, previous>>
    /\ UNCHANGED <<endpoint, modified_query, match_index, applied_entries, closed, applied>>
    /\ UNCHANGED store_vars

\* GET /health, /voicevox/version or /voicevox/speakers: client = VoicevoxClient()
ReceiveProbe ==
    /\ pc = "idle"
    /\ \E ep \in ProbeEndpoints : endpoint' = ep
    /\ pc' = "probe"
    /\ UNCHANGED <<heap, audio_query, call, ret, original, entries, input_text,
                   results, previous>>
    /\ UNCHANGED <<modified_query, match_index, applied_entries, engine, closed,
                   applied, response>>
    /\ UNCHANGED store_vars

\* version = await client.get_version(); return {"version": version}
GetVersion ==
    /\ pc = "probe"
    /\ endpoint = "version"
    /\ \E text \in VersionTexts :
          /\ engine' = Append(engine, [op |-> "version", ok |-> TRUE, text |-> text])
          /\ response' = [status |-> 200, kind |-> "version",
                          body |-> [version |-> get_version(text)]]
    /\ pc' = "closing"
    /\ UNCHANGED <<heap, audio_query, call, ret, original, entries, input_text, results, previous>>
    /\ UNCHANGED <<endpoint, modified_query, match_index, applied_entries, closed, applied>>
    /\ UNCHANGED store_vars

\* speakers = await client.get_speakers(); return speakers
GetSpeakers ==
    /\ pc = "probe"
    /\ endpoint = "speakers"
    /\ engine' = Append(engine, [op |-> "speakers", ok |-> TRUE])
    /\ \E speakers \in SpeakerLists :
          response' = [status |-> 200, kind |-> "speakers", body |-> speakers]
    /\ pc' = "closing"
    /\ UNCHANGED <<heap, audio_query, call, ret, original, entries, input_text, results, previous>>
    /\ UNCHANGED <<endpoint, modified_query, match_index, applied_entries, closed, applied>>
    /\ UNCHANGED store_vars

\* version = await client.get_version()
\* return {"status": "healthy", "voicevox_version": version,
\*         "dictionary_entries": len(load_dictionary())}
HealthCheck ==
    /\ pc = "probe"
    /\ endpoint = "health"
    /\ \E text \in VersionTexts, es \in FlowDictionaries :
          /\ engine' = Append(engine, [op |-> "version", ok |-> TRUE, text |-> text])
          /\ entries' = es
          /\ response' = Healthy(get_version(text), es)
    /\ pc' = "closing"
    /\ UNCHANGED <<heap, audio_query, call, ret, original, input_text, results, previous>>
    /\ UNCHANGED <<endpoint, modified_query, match_index, applied_entries, closed, applied>>
    /\ UNCHANGED store_vars

\* the engine answered get_version and load_dictionary() raises while the
\* health probe builds its answer
HealthLoadFails ==
    /\ pc = "probe"
    /\ endpoint = "health"
    /\ \E text \in VersionTexts :
          engine' = Append(engine, [op |-> "version", ok |-> TRUE, text |-> text])
    /\ ret' = [status |-> "Exception", message |-> "load_dictionary", ref |-> 0]
    /\ response' = OnException(endpoint, heap, audio_query, modified_query)
    /\ pc' = AfterAnswer(endpoint)
    /\ UNCHANGED <<heap, audio_query, call, original, entries, input_text, results, previous>>
    /\ UNCHANGED <<endpoint, modified_query, match_index, applied_entries, closed, applied>>
    /\ UNCHANGED store_vars

\* client.get_version or client.get_speakers raises: the engine is
\* unreachable or answers with an error status
ProbeFails ==
    /\ pc = "probe"
    /\ engine' = Append(engine, [op |-> IF endpoint = "speakers" THEN "speakers" ELSE "version",
                                 ok |-> FALSE])
    /\ ret' = [status |-> "Exception", message |-> "probe", ref |-> 0]
    /\ response' = OnException(endpoint, heap, audio_query, modified_query)
    /\ pc' = AfterAnswer(endpoint)
    /\ UNCHANGED <<heap, audio_query, call, original, entries, input_text, results, previous>>
    /\ UNCHANGED <<endpoint, modified_query, match_index, applied_entries, closed, applied>>
    /\ UNCHANGED store_vars

\* finally: await client.close()
Close ==
    /\ pc = "closing"
    /\ closed' = closed + 1
    /\ pc' = "done"
    /\ UNCHANGED <<heap, audio_query, call, ret, original, entries, input_text, results, previous>>
    /\ UNCHANGED <<endpoint, modified_query, match_index, applied_entries, engine,
                   applied, response>>
    /\ UNCHANGED store_vars

\* a request arrives
Arrival == Receive \/ ReceiveApply \/ ReceivePreview \/ ReceiveProbe

\* a step of the handler of the request that arrived
HandlerStep ==
    \/ CreateAudioQuery
    \/ CreateAudioQueryFails
    \/ LoadAndMatch
    \/ LoadDictionaryFails
    \/ MatcherFails
    \/ ApplyNextMatch
    \/ OverlayFails
    \/ FinishDebug
    \/ FinishApply
    \/ Synthesis
    \/ SynthesisFails
    \/ PreviewSynthesis
    \/ PreviewSynthesisFails
    \/ GetVersion
    \/ GetSpeakers
    \/ HealthCheck
    \/ HealthLoadFails
    \/ ProbeFails
    \/ Close

NextFlow == Arrival \/ HandlerStep

SpecFlow == InitFlow /\ [][NextFlow]_vars

\* The event loop runs the coroutine of a request until it returns: every
\* await on the engine ends, with an answer or with an exception (the
\* client's timeout is 30 s), so a handler that can take a step takes one.
SpecFlowLive == SpecFlow /\ WF_vars(HandlerStep)

----------------------------------------------------------------------------
(* The dictionary store: app/routers/dictionary.py *)

\* most entries in the dictionary file before the first request
MaxStored == 3

\* a JSON value for Optional[List[float]]: null, or an array
JsonNull == [type |-> "null", items |-> <<>>]
JsonArray(items) == [type |-> "array", items |-> items]

\* entry.model_dump(), as json.dump writes it
model_dump(entry) ==
    [word |-> entry.word, pronunciation |-> entry.pronunciation,
     pitch_values |-> IF entry.pitch_values.is_none THEN JsonNull
                      ELSE JsonArray(entry.pitch_values.values),
     length_values |-> IF entry.length_values.is_none THEN JsonNull
                       ELSE JsonArray(entry.length_values.values)]

\* ExtendedDictEntry(**entry) for an object json.load read
parse_entry(object) ==
    ExtendedDictEntry(object.word, object.pronunciation,
        IF object.pitch_values.type = "null" THEN None
        ELSE Some(object.pitch_values.items),
        IF object.length_values.type = "null" THEN None
        ELSE Some(object.length_values.items))

\* load_dictionary(): [] when there is no file
load_dictionary(file) ==
    IF ~file.exists THEN <<>>
    ELSE [k \in 1..Len(file.data) |-> parse_entry(file.data[k])]

\* save_dictionary(entries): the file is created, or written over
save_dictionary(es) ==
    [exists |-> TRUE, data |-> [k \in 1..Len(es) |-> model_dump(es[k])]]

\* Field(..., min_length=1) on word and pronunciation
ValidEntry(entry) == Len(entry.word) >= 1 /\ Len(entry.pronunciation) >= 1

\* faulty variant: the entry is always added at the end
ReplaceOrAppend_append(es, entry) == Append(es, entry)

\* for i, existing in enumerate(entries):
\*     if existing.word == entry.word: entries[i] = entry; updated = True; break
\* if not updated: entries.append(entry)
ReplaceOrAppend(es, entry) ==
    LET same == {i \in 1..Len(es) : es[i].word = entry.word}
    IN  IF same = {} THEN Append(es, entry)
        ELSE [es EXCEPT ![Min(same)] = entry]

\* faulty variant: only the first entry with the word is left out
Without_first(es, word) ==
    LET same == {i \in 1..Len(es) : es[i].word = word}
    IN  IF same = {} THEN es
        ELSE SubSeq(es, 1, Min(same) - 1) \o SubSeq(es, Min(same) + 1, Len(es))

\* [e for e in entries if e.word != word]
Without(es, word) == SelectSeq(es, LAMBDA e : e.word # word)

\* [e for e in entries if e.word == word]
With(es, word) == SelectSeq(es, LAMBDA e : e.word = word)

\* faulty variant: the delete of a missing word is answered as a success
NotFound_ok(word) == [status |-> 200, kind |-> "deleted", body |-> word]

\* raise HTTPException(status_code=404, detail="Entry not found")
NotFound(word) == [status |-> 404, kind |-> "error", body |-> <<>>]

----------------------------------------------------------------------------
(* Inputs of the dictionary store *)

StoreWords == {<<"w">>, <<"v", "w">>, <<"x">>}

\* two versions of the entry of a word: one without a pitch list and with
\* an empty length list, one with a pitch list and without a length list
StoreEntries ==
    {ExtendedDictEntry(w, <<"a">>, None, Some(<<>>)) : w \in StoreWords}
    \cup {ExtendedDictEntry(w, <<"a">>, Some(<<60>>), None) : w \in StoreWords}

\* the entries a client posts: the valid ones, and one whose word is empty
PostedEntries == StoreEntries \cup {ExtendedDictEntry(<<>>, <<"a">>, None, None)}

\* the words a client asks for: those of the entries, and one no entry has
AskedWords == StoreWords \cup {<<"y">>}

\* the dictionary file before the first request: none, or a list of up to
\* MaxStored entries; a file edited by hand may hold a word twice
StoredFiles ==
    {NoFile} \cup UNION {{save_dictionary(es) : es \in SeqsOfLen(StoreEntries, n)} :
                            n \in 0..MaxStored}

\* the words of the entries are pairwise distinct
DistinctWords(es) ==
    \A i, j \in 1..Len(es) : es[i].word = es[j].word => i = j

----------------------------------------------------------------------------
(* The handlers of the dictionary routes. A handler has no await between its
   load and its save: the event loop runs it in one step. *)

InitStore ==
    /\ pc = "serving"
    /\ heap = [r \in Refs |-> Null]
    /\ audio_query = 0
    /\ original = Null
    /\ call = NoCall
    /\ ret = NoRet
    /\ entries = <<>>
    /\ input_text = <<>>
    /\ results = <<>>
    /\ previous = <<>>
    /\ NoRequest
    /\ \E file \in StoredFiles :
          /\ dict_file = file
          /\ file_before = file
          /\ started_distinct = DistinctWords(load_dictionary(file))

\* what no dictionary route changes
StoreFrame ==
    /\ UNCHANGED <<pc, heap, audio_query, ret, original, entries, input_text,
                   results, previous, started_distinct>>
    /\ UNCHANGED <<endpoint, modified_query, match_index, applied_entries, engine,
                   closed, applied>>

\* GET /: entries = load_dictionary()
\* return DictionaryResponse(entries=entries, total=len(entries))
get_dictionary ==
    /\ pc = "serving"
    /\ LET es == load_dictionary(dict_file)
       IN  response' = [status |-> 200, kind |-> "dictionary",
                        body |-> [entries |-> es, total |-> Len(es)]]
    /\ call' = [op |-> "get_dictionary"]
    /\ file_before' = dict_file
    /\ UNCHANGED dict_file
    /\ StoreFrame

\* POST / with a body that is not an ExtendedDictEntry (an empty word): the
\* request is refused before the handler runs
add_entry_invalid ==
    /\ pc = "serving"
    /\ \E entry \in PostedEntries :
          /\ ~ValidEntry(entry)
          /\ call' = [op |-> "add_entry", entry |-> entry]
    /\ response' = [status |-> 422, kind |-> "error", body |-> <<>>]
    /\ file_before' = dict_file
    /\ UNCHANGED dict_file
    /\ StoreFrame

\* POST /: add_entry(entry)
add_entry ==
    /\ pc = "serving"
    /\ \E entry \in PostedEntries :
          /\ ValidEntry(entry)
          /\ dict_file' = save_dictionary(ReplaceOrAppend(load_dictionary(dict_file), entry))
          /\ call' = [op |-> "add_entry", entry |-> entry]
          /\ response' = [status |-> 200, kind |-> "entry", body |-> entry]
    /\ file_before' = dict_file
    /\ StoreFrame

\* GET /search?word=...: search_dictionary(word)
search_dictionary ==
    /\ pc = "serving"
    /\ \E word \in AskedWords :
          LET found == With(load_dictionary(dict_file), word)
          IN  /\ call' = [op |-> "search_dictionary", word |-> word]
              /\ response' = [status |-> 200, kind |-> "search",
                               body |-> [entries |-> found, total |-> Len(found)]]
    /\ file_before' = dict_file
    /\ UNCHANGED dict_file
    /\ StoreFrame

\* DELETE /{word}: delete_entry(word)
delete_entry ==
    /\ pc = "serving"
    /\ \E word \in AskedWords :
          LET loaded == load_dictionary(dict_file)
              original_count == Len(loaded)
              kept == Without(loaded, word)
          IN  /\ call' = [op |-> "delete_entry", word |-> word]
              /\ IF Len(kept) = original_count
                 THEN /\ response' = NotFound(word)
                      /\ UNCHANGED dict_file
                 ELSE /\ dict_file' = save_dictionary(kept)
                      /\ response' = [status |-> 200, kind |-> "deleted", body |-> word]
    /\ file_before' = dict_file
    /\ StoreFrame

NextStore ==
    \/ get_dictionary
    \/ add_entry_invalid
    \/ add_entry
    \/ search_dictionary
    \/ delete_entry

SpecStore == InitStore /\ [][NextStore]_vars

----------------------------------------------------------------------------
(* All callers *)

Init == InitOverlay \/ InitMatcher \/ InitFlow \/ InitStore

Next == NextOverlay \/ NextMatcher \/ NextFlow \/ NextStore

Spec == Init /\ [][Next]_vars

----------------------------------------------------------------------------
(* The overlay engine: what a finished call looks like *)

Called == pc \in {"returned", "mutated"} /\ call.op = "apply_partial_match"

Returned == pc = "returned" /\ call.op = "apply_partial_match"

Succeeded == Returned /\ ret.status = "ok"

\* an override list that is null or empty
AbsentOrEmpty(values) == values.is_none \/ values.values = <<>>

\* an override list that holds at least one value
NonEmptyList(values) == ~AbsentOrEmpty(values)

RangeErrors == {"Invalid accent_phrase_index", "Invalid mora range"}

FailedWithRangeError ==
    Returned /\ ret.status = "ValueError" /\ ret.message \in RangeErrors /\ ret.ref = 0

FailedWithCountMismatch ==
    Returned /\ ret.status = "ValueError" /\ ret.message = "mora count mismatch" /\ ret.ref = 0

\* the accent phrases of the query as it was handed in
InPhrases == original.accent_phrases

\* the query handed back by a successful call
OutQuery == heap[ret.ref]

\* 0 <= accent_phrase_index < number of accent phrases
IndexInside ==
    call.accent_phrase_index >= 0 /\ call.accent_phrase_index < Len(InPhrases)

\* the moras of the accent phrase at accent_phrase_index, as handed in
InMoras == InPhrases[call.accent_phrase_index + 1].moras

OutMoras == OutQuery.accent_phrases[call.accent_phrase_index + 1].moras

TargetCount == call.mora_end_index - call.mora_start_index

\* the range check of the code: 0 <= start and end <= number of moras
RangeAccepted ==
    call.mora_start_index >= 0 /\ call.mora_end_index <= Len(InMoras)

\* 0 <= start <= end <= number of moras
RangeOrdered ==
    RangeAccepted /\ call.mora_start_index <= call.mora_end_index

\* mora k (a Python index) lies in [mora_start_index, mora_end_index)
InRange(k) == call.mora_start_index <= k /\ k < call.mora_end_index

\* C1: apply_partial_match never mutates its argument. Whatever the call
\* returned or raised, the caller's query equals the query before the call;
\* a returned query is another object than the argument, and the argument
\* still holds its value after the caller has changed the returned query.
C1_ArgumentNeverMutated ==
    Called =>
        /\ heap[audio_query] = original
        /\ ret.status = "ok" => ret.ref # audio_query
        /\ ret.status # "ok" => ret.ref = 0

\* a successful call wrote pitch values and the caller then changed the result
C1_Witness ==
    /\ Called
    /\ pc = "mutated"
    /\ NonEmptyList(call.entry.pitch_values)
    /\ heap[ret.ref] # original
    /\ Len(InPhrases) > 0

\* C2: with the segment index inside the query, 0 <= start <= end <= number
\* of moras and a non-empty pitch (length) list of end - start values, mora
\* start + i of that phrase has pitch (vowel_length) equal to value i in the
\* returned query; a query is returned when every non-empty list fits.
C2_ValuesWrittenInOrder ==
    /\ (/\ Returned /\ IndexInside /\ RangeOrdered
        /\ \/ AbsentOrEmpty(call.entry.pitch_values)
           \/ Len(call.entry.pitch_values.values) = TargetCount
        /\ \/ AbsentOrEmpty(call.entry.length_values)
           \/ Len(call.entry.length_values.values) = TargetCount)
       => ret.status = "ok"
    /\ (Succeeded /\ IndexInside /\ RangeOrdered) =>
        /\ (NonEmptyList(call.entry.pitch_values)
              /\ Len(call.entry.pitch_values.values) = TargetCount) =>
                \A i \in 0..(TargetCount - 1) :
                    OutMoras[call.mora_start_index + i + 1].pitch
                        = call.entry.pitch_values.values[i + 1]
        /\ (NonEmptyList(call.entry.length_values)
              /\ Len(call.entry.length_values.values) = TargetCount) =>
                \A i \in 0..(TargetCount - 1) :
                    OutMoras[call.mora_start_index + i + 1].vowel_length
                        = call.entry.length_values.values[i + 1]

\* both lists were written into a range that does not start at mora 0
C2_Witness ==
    /\ Succeeded /\ IndexInside /\ RangeOrdered
    /\ call.mora_start_index > 0
    /\ NonEmptyList(call.entry.pitch_values)
    /\ NonEmptyList(call.entry.length_values)

\* C3, as claimed: a successful call changes nothing but the pitch and the
\* vowel_length of the moras in [start, end) of the accent phrase at
\* accent_phrase_index. Every other mora, every other accent phrase and every
\* global field is equal in the result and in the input, and so are the text
\* and the consonant_length of the moras in the range.
C3_OnlyTheRangeChanges ==
    Succeeded =>
        /\ OutQuery.speedScale = original.speedScale
        /\ Len(OutQuery.accent_phrases) = Len(InPhrases)
        /\ \A j \in 1..Len(InPhrases) :
              LET out == OutQuery.accent_phrases[j]
                  in == InPhrases[j]
              IN  /\ out.accent = in.accent
                  /\ Len(out.moras) = Len(in.moras)
                  /\ \A k \in 1..Len(in.moras) :
                        IF j - 1 = call.accent_phrase_index /\ InRange(k - 1)
                        THEN /\ out.moras[k].text = in.moras[k].text
                             /\ out.moras[k].consonant_length
                                    = in.moras[k].consonant_length
                        ELSE out.moras[k] = in.moras[k]

\* the frame of C3 for the calls whose accent_phrase_index is inside the query
OnlyTheRangeChangesIndexInside ==
    (Succeeded /\ IndexInside) => C3_OnlyTheRangeChanges

\* C4: with a valid segment index and unit range, a list that is None or
\* empty overrides nothing: its dimension keeps the input value in every
\* mora, the call fails only when the other list is non-empty and does not
\* fit, and a fitting other list is written.
C4_AbsentListOverridesNothing ==
    (Returned /\ IndexInside /\ RangeAccepted) =>
        /\ AbsentOrEmpty(call.entry.pitch_values) =>
              /\ (AbsentOrEmpty(call.entry.length_values)
                    \/ Len(call.entry.length_values.values) = TargetCount)
                 => /\ ret.status = "ok"
                    /\ \A k \in 1..Len(InMoras) :
                          /\ OutMoras[k].pitch = InMoras[k].pitch
                          /\ (NonEmptyList(call.entry.length_values) /\ InRange(k - 1))
                             => OutMoras[k].vowel_length
                                  = call.entry.length_values.values[k - call.mora_start_index]
        /\ AbsentOrEmpty(call.entry.length_values) =>
              /\ (AbsentOrEmpty(call.entry.pitch_values)
                    \/ Len(call.entry.pitch_values.values) = TargetCount)
                 => /\ ret.status = "ok"
                    /\ \A k \in 1..Len(InMoras) :
                          /\ OutMoras[k].vowel_length = InMoras[k].vowel_length
                          /\ (NonEmptyList(call.entry.pitch_values) /\ InRange(k - 1))
                             => OutMoras[k].pitch
                                  = call.entry.pitch_values.values[k - call.mora_start_index]

\* an empty pitch list beside a fitting length list, over a non-empty range
C4_Witness ==
    /\ Succeeded /\ IndexInside /\ RangeOrdered
    /\ call.entry.pitch_values = Some(<<>>)
    /\ NonEmptyList(call.entry.length_values)
    /\ TargetCount > 0

\* C5: with a valid segment index and unit range, a non-empty pitch list or
\* a non-empty length list whose length differs from end - start makes the
\* call fail with the count-mismatch error: nothing is returned and the
\* caller's query is unchanged.
C5_MismatchFails ==
    (/\ Returned /\ IndexInside /\ RangeAccepted
     /\ \/ (NonEmptyList(call.entry.pitch_values)
               /\ Len(call.entry.pitch_values.values) # TargetCount)
        \/ (NonEmptyList(call.entry.length_values)
               /\ Len(call.entry.length_values.values) # TargetCount))
    => /\ FailedWithCountMismatch
       /\ heap[audio_query] = original

\* the pitch list fits and the length list is too short
C5_Witness ==
    /\ Returned /\ IndexInside /\ RangeOrdered
    /\ NonEmptyList(call.entry.pitch_values)
    /\ Len(call.entry.pitch_values.values) = TargetCount
    /\ NonEmptyList(call.entry.length_values)
    /\ Len(call.entry.length_values.values) < TargetCount
    /\ FailedWithCountMismatch

\* C6, as claimed: with a valid segment index, a unit range whose start or
\* end lies outside [0, number of moras] always fails with a range error,
\* and the caller's query is unchanged.
C6_OutsideRangeFails ==
    (/\ Returned /\ IndexInside
     /\ \/ call.mora_start_index \notin 0..Len(InMoras)
        \/ call.mora_end_index \notin 0..Len(InMoras))
    => /\ FailedWithRangeError
       /\ heap[audio_query] = original

\* C7, as claimed: a segment index that is not in 0 .. number of accent
\* phrases - 1 fails with a range error, and no value is written into any
\* accent phrase.
C7_IndexOutsideFails ==
    (Returned /\ ~IndexInside) =>
        /\ FailedWithRangeError
        /\ \A r \in Refs : heap[r] # Null => heap[r].accent_phrases = InPhrases

----------------------------------------------------------------------------
(* The matcher: what a finished call looks like *)

MatchedExact == pc = "matched" /\ call.op = "find_matches"

MatchedPartial == pc = "matched" /\ call.op = "find_matches_with_text"

\* the accent phrases of the query the matcher was given
Phrases == heap[audio_query].accent_phrases

\* the texts of the moras of accent phrase j (a position)
TextsOf(j) == [k \in 1..Len(Phrases[j].moras) |-> Phrases[j].moras[k].text]

\* the segment string of accent phrase j: its mora texts, concatenated
SegmentString(j) == Join(TextsOf(j))

\* word occurs in text as a literal substring
IsSubstring(word, text) ==
    \E i \in 0..(Len(text) - Len(word)) : \A k \in 1..Len(word) : text[i + k] = word[k]

\* p occurs in s, but p is not s
IsProperSubstring(p, s) == p # s /\ IsSubstring(p, s)

\* the positions in `results` of the results for entry e in accent phrase j
ResultsFor(e, j) ==
    {k \in 1..Len(results) :
        results[k].entry = e /\ results[k].accent_phrase_index = j - 1}

\* C8: exact mode returns (entry e, segment s, 0, n) exactly when segment s
\* has n >= 1 moras whose texts concatenate to e.pronunciation, and exactly
\* one result for each such (entry, segment) pair; nothing else is returned.
C8_ExactMatchIff ==
    MatchedExact =>
        /\ \A k \in 1..Len(results) :
              LET r == results[k]
              IN  /\ r.entry \in 1..Len(entries)
                  /\ r.accent_phrase_index \in 0..(Len(Phrases) - 1)
                  /\ r.mora_start_index = 0
                  /\ r.mora_end_index = Len(Phrases[r.accent_phrase_index + 1].moras)
        /\ \A e \in 1..Len(entries), j \in 1..Len(Phrases) :
              Cardinality(ResultsFor(e, j)) =
                  IF Len(Phrases[j].moras) >= 1
                     /\ SegmentString(j) = entries[e].pronunciation
                  THEN 1 ELSE 0

\* two entries share the pronunciation of a segment and each has its result,
\* while another segment only contains that pronunciation and has none
C8_Witness ==
    /\ MatchedExact
    /\ Len(entries) = 2
    /\ entries[1].pronunciation = entries[2].pronunciation
    /\ \E j \in 1..Len(Phrases) :
          /\ ResultsFor(1, j) # {}
          /\ ResultsFor(2, j) # {}
    /\ \E j \in 1..Len(Phrases) :
          /\ IsProperSubstring(entries[1].pronunciation, SegmentString(j))
          /\ ResultsFor(1, j) = {}

\* C9: partial mode returns results only for entries whose word occurs in
\* the source text as a literal substring; an empty entry list or an empty
\* source text gives the empty result.
C9_TextFilter ==
    MatchedPartial =>
        /\ \A k \in 1..Len(results) :
              IsSubstring(entries[results[k].entry].word, input_text)
        /\ (entries = <<>> \/ input_text = <<>>) => results = <<>>

\* an entry whose word is not in the text has no result although its
\* pronunciation occurs in a segment, beside an entry that has a result
C9_Witness ==
    /\ MatchedPartial
    /\ results # <<>>
    /\ \E e \in 1..Len(entries), j \in 1..Len(Phrases) :
          /\ ~IsSubstring(entries[e].word, input_text)
          /\ IsSubstring(entries[e].pronunciation, SegmentString(j))
          /\ ResultsFor(e, j) = {}

\* the character offset at which mora k (a Python index) of accent phrase j
\* starts; for k = number of moras, the length of the segment string
OffsetOf(j, k) == Len(Join(Slice(TextsOf(j), 0, k)))

\* the offsets of the occurrences of p in s found from offset `from` on by a
\* left-to-right scan that resumes just past each occurrence
RECURSIVE ScanOffsets(_, _, _)
ScanOffsets(s, p, from) ==
    LET hits == {i \in from..(Len(s) - Len(p)) : OccursAt(s, p, i)}
    IN  IF hits = {} THEN {}
        ELSE {Min(hits)} \cup ScanOffsets(s, p, Min(hits) + Len(p))

\* the results for entry e in accent phrase j have pairwise disjoint mora
\* ranges, in strictly increasing order
DisjointIncreasing(e, j) ==
    \A k, l \in ResultsFor(e, j) :
        /\ results[k].mora_start_index < results[k].mora_end_index
        /\ k < l => results[k].mora_end_index <= results[l].mora_start_index

\* every scanned occurrence of the pronunciation of entry e that starts and
\* ends at a mora boundary of accent phrase j is reported
EveryOccurrenceReported(e, j) ==
    \A o \in ScanOffsets(SegmentString(j), entries[e].pronunciation, 0) :
        \A a, b \in 0..Len(Phrases[j].moras) :
            (a < b /\ OffsetOf(j, a) = o
               /\ OffsetOf(j, b) = o + Len(entries[e].pronunciation))
            => \E k \in ResultsFor(e, j) :
                  /\ results[k].mora_start_index = a
                  /\ results[k].mora_end_index = b

\* C10, as claimed: for a surviving entry and a segment, the results are the
\* occurrences found by the resuming left-to-right scan: their mora ranges
\* are pairwise disjoint and strictly increasing, and every disjoint
\* occurrence is reported.
C10_ScanDisjointIncreasing ==
    MatchedPartial =>
        \A e \in 1..Len(entries), j \in 1..Len(Phrases) :
            /\ DisjointIncreasing(e, j)
            /\ (input_text # <<>> /\ IsSubstring(entries[e].word, input_text))
               => EveryOccurrenceReported(e, j)

\* the second half of C10 alone
ScannedOccurrencesReported ==
    MatchedPartial =>
        \A e \in 1..Len(entries), j \in 1..Len(Phrases) :
            (input_text # <<>> /\ IsSubstring(entries[e].word, input_text))
            => EveryOccurrenceReported(e, j)

\* the first half of C10 for the segments whose mora texts are all one
\* character long
DisjointIncreasingSingleCharacter ==
    MatchedPartial =>
        \A e \in 1..Len(entries), j \in 1..Len(Phrases) :
            (\A k \in 1..Len(TextsOf(j)) : Len(TextsOf(j)[k]) = 1)
            => DisjointIncreasing(e, j)

\* the text a result stands for: the texts of the moras of its range in its
\* accent phrase, concatenated
Reconstruction(r) ==
    Join(Slice(TextsOf(r.accent_phrase_index + 1), r.mora_start_index, r.mora_end_index))

\* the mora range of result r lies inside the accent phrase r names
RangeInsidePhrase(r) ==
    /\ r.accent_phrase_index \in 0..(Len(Phrases) - 1)
    /\ 0 <= r.mora_start_index
    /\ r.mora_start_index <= r.mora_end_index
    /\ r.mora_end_index <= Len(Phrases[r.accent_phrase_index + 1].moras)

\* C11: every result of find_matches_with_text is sound. The texts of the
\* moras start .. end - 1 of the accent phrase it names, concatenated, are
\* equal to the pronunciation of its entry, also when a mora text is longer
\* than one character; a range that reconstructs to another string is not
\* in the result.
C11_ResultsSound ==
    MatchedPartial =>
        \A k \in 1..Len(results) :
            /\ RangeInsidePhrase(results[k])
            /\ Reconstruction(results[k]) = entries[results[k].entry].pronunciation

\* a result covers a mora of two characters, and a surviving entry whose
\* pronunciation occurs only inside a mora of a segment has no result there
C11_Witness ==
    /\ MatchedPartial
    /\ \E k \in 1..Len(results) :
          /\ results[k].mora_end_index = results[k].mora_start_index + 1
          /\ Len(Reconstruction(results[k])) = 2
    /\ \E e \in 1..Len(entries), j \in 1..Len(Phrases) :
          /\ IsSubstring(entries[e].word, input_text)
          /\ IsSubstring(entries[e].pronunciation, SegmentString(j))
          /\ ResultsFor(e, j) = {}

\* the segment strings of all accent phrases, concatenated
QueryString == Join([j \in 1..Len(Phrases) |-> SegmentString(j)])

\* the pronunciation of entry e occurs in no single segment string
InNoSegment(e) ==
    \A j \in 1..Len(Phrases) : ~IsSubstring(entries[e].pronunciation, SegmentString(j))

\* C12: matches never cross a segment boundary. In both modes every result
\* range lies inside the accent phrase the result names, and an entry whose
\* pronunciation occurs in no single segment string has no result, also when
\* it occurs in the concatenation of consecutive segment strings.
C12_NoCrossSegment ==
    (MatchedExact \/ MatchedPartial) =>
        /\ \A k \in 1..Len(results) : RangeInsidePhrase(results[k])
        /\ \A e \in 1..Len(entries) :
              InNoSegment(e) => \A k \in 1..Len(results) : results[k].entry # e

\* a surviving entry whose pronunciation spans two accent phrases has no
\* result, beside an entry that has one
C12_Witness ==
    /\ MatchedPartial
    /\ results # <<>>
    /\ \E e \in 1..Len(entries) :
          /\ IsSubstring(entries[e].word, input_text)
          /\ IsSubstring(entries[e].pronunciation, QueryString)
          /\ InNoSegment(e)

\* results k < l are in segment order and, in one segment, in entry-list order
SegmentThenEntryOrder(k, l) ==
    /\ results[k].accent_phrase_index <= results[l].accent_phrase_index
    /\ results[k].accent_phrase_index = results[l].accent_phrase_index
          => results[k].entry <= results[l].entry

\* results k < l of one entry in one segment are in increasing start order
StartOrder(k, l) ==
    (/\ results[k].accent_phrase_index = results[l].accent_phrase_index
     /\ results[k].entry = results[l].entry)
    => results[k].mora_start_index < results[l].mora_start_index

\* C13, as claimed: the result list of find_matches_with_text is in
\* non-decreasing segment index, within a segment in entry-list order, and
\* within a segment and an entry in increasing mora start index.
C13_ResultsOrdered ==
    MatchedPartial =>
        \A k, l \in 1..Len(results) :
            k < l => (SegmentThenEntryOrder(k, l) /\ StartOrder(k, l))

\* the first two orders of C13 alone
OrderedBySegmentThenEntry ==
    MatchedPartial =>
        \A k, l \in 1..Len(results) : k < l => SegmentThenEntryOrder(k, l)

\* the third order of C13 for the segments whose mora texts are all one
\* character long
StartOrderSingleCharacter ==
    MatchedPartial =>
        \A k, l \in 1..Len(results) :
            (/\ k < l
             /\ \A m \in 1..Len(TextsOf(results[k].accent_phrase_index + 1)) :
                   Len(TextsOf(results[k].accent_phrase_index + 1)[m]) = 1)
            => StartOrder(k, l)

\* find_matches has run a second time on the same query and entry list
Rematched == pc = "rematched"

\* C14: exact mode is order-stable. The results are listed in segment order
\* and, within a segment, in the entry-list order of the entries that share
\* the segment's pronunciation; a second run on the same query and entry
\* list returns the same list; the query is not changed by either run.
C14_ExactOrderStable ==
    /\ (MatchedExact \/ Rematched) =>
          /\ \A k, l \in 1..Len(results) : k < l => SegmentThenEntryOrder(k, l)
          /\ heap[audio_query] = original
    /\ Rematched => results = previous

\* the second run returned again the two entries that share the
\* pronunciation of one segment, and a result for a later segment
C14_Witness ==
    /\ Rematched
    /\ \E j \in 1..Len(Phrases) : ResultsFor(1, j) # {} /\ ResultsFor(2, j) # {}
    /\ \E k, l \in 1..Len(results) :
          results[k].accent_phrase_index < results[l].accent_phrase_index

----------------------------------------------------------------------------
(* The whole-query operations: what a finished call looks like *)

WholeOps == {"apply_pitch_values", "apply_length_values"}

CalledWhole == pc \in {"returned", "mutated"} /\ call.op \in WholeOps

ReturnedWhole == pc = "returned" /\ call.op \in WholeOps

\* the moras of all accent phrases, in document order
AllMoras(accent_phrases) ==
    Join([j \in 1..Len(accent_phrases) |-> accent_phrases[j].moras])

\* the number of moras of the query handed in
TotalCount == Len(AllMoras(InPhrases))

\* the result has the accent phrases of the input, each with as many moras
SameShape(out_phrases, in_phrases) ==
    /\ Len(out_phrases) = Len(in_phrases)
    /\ \A j \in 1..Len(in_phrases) :
          Len(out_phrases[j].moras) = Len(in_phrases[j].moras)

\* C15: apply_pitch_values and apply_length_values with a non-empty list
\* whose length differs from (number of moras of the query - start index)
\* fail with the count-mismatch error and leave the input query unchanged;
\* with an empty list they return, for any start index, another object that
\* is equal to the input, and the input keeps its value when the caller
\* changes that object.
C15_WholeQueryMismatchFails ==
    /\ CalledWhole => heap[audio_query] = original
    /\ (ReturnedWhole /\ call.values # <<>>
           /\ Len(call.values) # TotalCount - call.start_mora_index)
       => /\ ret.status = "ValueError"
          /\ ret.message = "mora count mismatch"
          /\ ret.ref = 0
    /\ (ReturnedWhole /\ call.values = <<>>)
       => /\ ret.status = "ok"
          /\ ret.ref # audio_query
          /\ heap[ret.ref] = original

\* a list that would fit the whole query is refused for a start index in
\* the second accent phrase
C15_Witness ==
    /\ ReturnedWhole
    /\ Len(InPhrases) = 2
    /\ call.start_mora_index > Len(InPhrases[1].moras)
    /\ call.start_mora_index < TotalCount
    /\ Len(call.values) = TotalCount
    /\ ret.status = "ValueError"

\* in the returned query, value i is in the mora with global index s + i,
\* every value has such a mora, and the moras below s are as in the input
LandInDocumentOrder ==
    LET out == AllMoras(OutQuery.accent_phrases)
        in == AllMoras(InPhrases)
        s == call.start_mora_index
    IN  /\ SameShape(OutQuery.accent_phrases, InPhrases)
        /\ \A i \in 0..(Len(call.values) - 1) :
              /\ s + i \in 0..(Len(out) - 1)
              /\ out[s + i + 1][call.field] = call.values[i + 1]
        /\ \A g \in 0..(Len(in) - 1) : g < s => out[g + 1] = in[g + 1]

\* C16, as claimed: when apply_pitch_values (apply_length_values) succeeds
\* with a non-empty list and any start index s, the mora with global index
\* s + i, counted over all accent phrases in document order, holds value i
\* in its pitch (vowel_length), every value is written to one mora, and the
\* moras with a global index below s are unchanged.
C16_ValuesLandInDocumentOrder ==
    (ReturnedWhole /\ ret.status = "ok" /\ call.values # <<>>)
    => LandInDocumentOrder

\* C16 for the start indexes that are not negative
LandInDocumentOrderFromZeroUp ==
    (ReturnedWhole /\ ret.status = "ok" /\ call.values # <<>>
       /\ call.start_mora_index >= 0)
    => LandInDocumentOrder

\* values written across two accent phrases from a start index above 0
LandsAcrossPhrases ==
    /\ ReturnedWhole /\ ret.status = "ok"
    /\ Len(InPhrases) = 2
    /\ call.start_mora_index > 0
    /\ call.start_mora_index < Len(InPhrases[1].moras)
    /\ Len(InPhrases[2].moras) > 1

----------------------------------------------------------------------------
(* The request handlers: what a request looks like *)

\* the handler has decided its answer
Answered == response.status # 0

\* the handler went through its `except Exception`
Excepted == ret.status = "Exception"

\* the non-empty lists of the entry of match m have as many values as the
\* range of m has moras
FitsRange(m) ==
    LET n == m.mora_end_index - m.mora_start_index
        e == entries[m.entry]
    IN  /\ AbsentOrEmpty(e.pitch_values) \/ Len(e.pitch_values.values) = n
        /\ AbsentOrEmpty(e.length_values) \/ Len(e.length_values.values) = n

\* the range of match m lies inside query q
RangeInsideQuery(m, q) ==
    /\ m.accent_phrase_index \in 0..(Len(q.accent_phrases) - 1)
    /\ 0 <= m.mora_start_index
    /\ m.mora_start_index <= m.mora_end_index
    /\ m.mora_end_index <= Len(q.accent_phrases[m.accent_phrase_index + 1].moras)

\* mora `mora`, at Python index i of the phrase of match m, with the values
\* of the entry of m when i is in the range of m
OverlaidMora(mora, i, m) ==
    LET e == entries[m.entry]
        inside == m.mora_start_index <= i /\ i < m.mora_end_index
        at == i - m.mora_start_index + 1
    IN  [mora EXCEPT
            !.pitch = IF inside /\ NonEmptyList(e.pitch_values)
                      THEN e.pitch_values.values[at] ELSE @,
            !.vowel_length = IF inside /\ NonEmptyList(e.length_values)
                             THEN e.length_values.values[at] ELSE @]

\* query q with the values of the entry of match m laid over the range of m
Overlaid(q, m) ==
    LET p == m.accent_phrase_index + 1
        old == q.accent_phrases[p].moras
    IN  [q EXCEPT !.accent_phrases[p].moras =
            [k \in 1..Len(old) |-> OverlaidMora(old[k], k - 1, m)]]

\* C17: in the handlers the matches are applied in their produced order. An
\* iteration of the loop takes the next match of the list; a match that does
\* not fit is skipped and the running query is exactly as before it (also
\* when its pitch list fits and its length list does not); a match that fits
\* is laid over the running query as the earlier matches left it; the loop
\* goes on after either, and a handler that answers without an exception
\* has gone through every match.
C17_SkipAndContinue ==
    [][/\ (pc = "apply_loop" /\ match_index' = match_index + 1
            /\ ret'.status \in {"ok", "ValueError"})
          => LET m == results[match_index + 1]
                 before == heap[modified_query]
                 after == heap'[modified_query']
             IN  /\ results' = results
                 /\ pc' = "apply_loop"
                 /\ IF RangeInsideQuery(m, before) /\ FitsRange(m)
                    THEN ret'.status = "ok" /\ after = Overlaid(before, m)
                    ELSE ret'.status = "ValueError" /\ after = before
       /\ (response'.status # 0 /\ ret'.status # "Exception")
          => match_index' = Len(results')]_vars

\* the first match was skipped with a fitting pitch list and a length list
\* that does not fit, and the second match was applied after it
C17_Witness ==
    /\ endpoint = "apply"
    /\ pc = "done"
    /\ Len(results) = 2
    /\ NonEmptyList(entries[results[1].entry].pitch_values)
    /\ Len(entries[results[1].entry].pitch_values.values)
          = results[1].mora_end_index - results[1].mora_start_index
    /\ ~FitsRange(results[1])
    /\ response.applied_entries = <<entries[results[2].entry].word>>
    /\ response.query # original

\* C18, as claimed: the count in the response metadata of the synthesize
\* handler is the number of matches that were applied to the rendered query.
C18_CountIsApplied ==
    (endpoint = "synthesize" /\ response.status = 200)
    => response.matches_found = applied

\* C18, amended: the count is the number of Match Results the matcher found
\* for the request, applied or skipped; the matches applied to the rendered
\* query are those of them that fit, so the count is the number of applied
\* matches when no match was skipped, as for one matching entry that fits.
C18_CountIsFound ==
    (endpoint = "synthesize" /\ response.status = 200)
    => /\ response.matches_found = Len(results)
       /\ applied = Cardinality({k \in 1..Len(results) : FitsRange(results[k])})
       /\ response.query = heap[modified_query]
       /\ (Len(results) = 1 /\ FitsRange(results[1]))
          => (applied = 1 /\ response.matches_found = 1)

\* audio was rendered after one of two matches was skipped
C18_Witness ==
    /\ endpoint = "synthesize"
    /\ response.status = 200
    /\ Len(results) = 2
    /\ applied = 1
    /\ response.query # original

\* C19: the apply-only handler never answers with an error. When the
\* dictionary is empty, and when loading, matching or an overlay raised
\* (also after matches were applied), the answer carries the query that was
\* sent, unmodified, the count 0 and no applied word.
C19_ApplyNeverFails ==
    (endpoint = "apply" /\ Answered)
    => /\ response.status = 200
       /\ response.kind = "apply"
       /\ heap[audio_query] = original
       /\ (entries = <<>> \/ Excepted)
          => /\ response.query = original
             /\ response.matches_found = 0
             /\ response.applied_entries = <<>>

\* an overlay raised after a match had been applied to the running query
C19_Witness ==
    /\ endpoint = "apply"
    /\ pc = "done"
    /\ Excepted
    /\ applied >= 1
    /\ heap[modified_query] # original
    /\ response.query = original

\* some call to the engine failed
EngineFailed == \E k \in 1..Len(engine) : ~engine[k].ok

\* C20: in the synthesize handler an engine failure ends the request with
\* 503 and no audio. The engine is called at most once for the query and at
\* most once for the audio, in that order; when the query call fails the
\* audio call is never made; when either fails the answer is the 503 error.
C20_EngineFailureAborts ==
    endpoint = "synthesize"
    => /\ Len(engine) <= 2
       /\ Len(engine) >= 1 => engine[1].op = "audio_query"
       /\ Len(engine) = 2 => (engine[1].ok /\ engine[2].op = "synthesis")
       /\ EngineFailed
          => /\ response.status = 503
             /\ response.kind = "error"
             /\ response.query = Null

\* the render failed after a match had been applied
C20_Witness ==
    /\ endpoint = "synthesize"
    /\ pc = "done"
    /\ Len(engine) = 2
    /\ ~engine[2].ok
    /\ applied >= 1
    /\ response.status = 503

----------------------------------------------------------------------------
(* The engine client of a request *)

\* the handler of the request has constructed a VoicevoxClient
Opened == endpoint \in ClientEndpoints

\* C21: every request flow that opens an engine client (synthesize, debug,
\* preview, health, version, speakers) closes it exactly once: close() is
\* never called twice, it is called only once the answer is decided, a
\* finished handler has called it, and every handler that opened a client
\* eventually calls it, whether its engine call answered or failed.
C21_ClientClosedOnce ==
    /\ [](closed <= 1)
    /\ [](closed = 1 => (Opened /\ Answered /\ pc = "done"))
    /\ []((Opened /\ pc = "done") => closed = 1)
    /\ (Opened ~> closed = 1)

\* the preview handler closed its client after the engine call failed
C21_Witness ==
    /\ endpoint = "preview"
    /\ EngineFailed
    /\ response.status = 503
    /\ closed = 1
    /\ pc = "done"

----------------------------------------------------------------------------
(* The health probe *)

\* a text without the quotation marks around it
Unquoted(text) == SelectSeq(text, LAMBDA c : c # "\"")

\* C22: the health probe always produces a normal response. It answers 200
\* with {status healthy, engine version, entry count} when the engine
\* answered get_version and the dictionary loaded, and 200 with {status
\* unhealthy, error} when the engine call (or the load) failed; the failure
\* is never passed on as an error response, and every probe is answered.
C22_HealthAlwaysAnswers ==
    /\ []((endpoint = "health" /\ Answered)
          => /\ response.status = 200
             /\ response.kind = "health"
             /\ Len(engine) = 1
             /\ engine[1].op = "version"
             /\ IF EngineFailed \/ Excepted
                THEN /\ DOMAIN response.body = {"status", "error"}
                     /\ response.body.status = "unhealthy"
                ELSE /\ DOMAIN response.body
                          = {"status", "voicevox_version", "dictionary_entries"}
                     /\ response.body.status = "healthy"
                     /\ response.body.voicevox_version = Unquoted(engine[1].text)
                     /\ response.body.dictionary_entries = Len(entries))
    /\ (endpoint = "health" ~> Answered)

\* the probe answered unhealthy after the engine call failed
C22_Witness ==
    /\ endpoint = "health"
    /\ pc = "done"
    /\ EngineFailed
    /\ response.status = 200
    /\ response.body.status = "unhealthy"

\* the probe answered healthy with a version the engine sent in quotes
HealthyUnquoted ==
    /\ endpoint = "health"
    /\ pc = "done"
    /\ response.body.status = "healthy"
    /\ response.body.dictionary_entries = 2
    /\ engine[1].text # response.body.voicevox_version

----------------------------------------------------------------------------
(* The dictionary store: what a request leaves behind *)

\* what LoadAll returns now, and what it returned before the last request
StoreNow == load_dictionary(dict_file)

StoreBefore == load_dictionary(file_before)

\* the positions of the entries of `es` with the word `word`
PositionsOf(es, word) == {i \in 1..Len(es) : es[i].word = word}

\* the last request was an Upsert that was accepted
Upserted == call.op = "add_entry" /\ response.status = 200

\* the last request was a Delete
Deleted == call.op = "delete_entry"

\* C23: Upsert is keyed by word. When the store holds an entry with the
\* word of e, the first such entry is replaced by e in place, the count and
\* every other entry are unchanged; otherwise e is appended after the
\* entries, which are unchanged. From a store whose words are pairwise
\* distinct, every sequence of Upsert and Delete keeps them pairwise
\* distinct, and LoadAll after Upsert(e) returns e as the one entry for the
\* word of e.
C23_UpsertKeyedByWord ==
    /\ Upserted =>
          LET e == call.entry
              same == PositionsOf(StoreBefore, e.word)
          IN  /\ response.body = e
              /\ dict_file.exists
              /\ IF same # {}
                 THEN /\ Len(StoreNow) = Len(StoreBefore)
                      /\ \A i \in 1..Len(StoreBefore) :
                            StoreNow[i] = IF i = Min(same) THEN e ELSE StoreBefore[i]
                 ELSE /\ Len(StoreNow) = Len(StoreBefore) + 1
                      /\ StoreNow[Len(StoreNow)] = e
                      /\ \A i \in 1..Len(StoreBefore) : StoreNow[i] = StoreBefore[i]
    /\ started_distinct => DistinctWords(StoreNow)
    /\ (started_distinct /\ Upserted) =>
          /\ Cardinality(PositionsOf(StoreNow, call.entry.word)) = 1
          /\ \A i \in PositionsOf(StoreNow, call.entry.word) : StoreNow[i] = call.entry
    /\ call.op = "get_dictionary" =>
          /\ response.body.entries = StoreNow
          /\ response.body.total = Len(StoreNow)

\* an Upsert replaced the second of three entries by another version of it
C23_Witness ==
    /\ Upserted
    /\ started_distinct
    /\ Len(StoreBefore) = 3
    /\ StoreBefore[2].word = call.entry.word
    /\ StoreBefore[2] # call.entry
    /\ StoreNow[2] = call.entry

\* an Upsert created the file with a word no entry had
UpsertCreatesFile ==
    /\ Upserted
    /\ ~file_before.exists
    /\ StoreNow = <<call.entry>>

\* C24: Delete(word) on a store that holds no entry with that word fails
\* with NotFound (404) and leaves the store as it is, nothing is saved;
\* otherwise it succeeds, no entry with the word is left, and the other
\* entries are all kept, in their original order.
C24_DeleteNotFoundOrRemovesAll ==
    Deleted =>
        LET same == PositionsOf(StoreBefore, call.word)
        IN  IF same = {}
            THEN /\ response.status = 404
                 /\ dict_file = file_before
            ELSE /\ response.status = 200
                 /\ dict_file.exists
                 /\ PositionsOf(StoreNow, call.word) = {}
                 /\ Len(StoreNow) = Len(StoreBefore) - Cardinality(same)
                 /\ \A i \in 1..Len(StoreBefore) :
                       i \notin same =>
                          StoreNow[i - Cardinality({j \in same : j < i})] = StoreBefore[i]

\* a Delete removed the two entries of a word that stood around another entry
C24_Witness ==
    /\ Deleted
    /\ response.status = 200
    /\ Len(StoreBefore) = 3
    /\ PositionsOf(StoreBefore, call.word) = {1, 3}
    /\ StoreNow = <<StoreBefore[2]>>

\* a Delete was refused while there is no file, and no file was created
DeleteOnNoFile ==
    /\ Deleted
    /\ response.status = 404
    /\ dict_file = NoFile

----------------------------------------------------------------------------
(* The matcher: the two modes on the same query and entry list *)

\* find_matches_with_text has run after find_matches on the same query and
\* entry list: `previous` holds the exact results, `results` the partial ones
Compared == pc = "compared"

----------------------------------------------------------------------------
(* apply_extended_dict: what a finished call looks like *)

ReturnedExtended == pc = "returned" /\ call.op = "apply_extended_dict"

\* the match names its start_mora_index
HasStart == "start_mora_index" \in DOMAIN call.match_result

\* the values of an override list; none for a list that is absent or empty
ListOf(values) == IF AbsentOrEmpty(values) THEN <<>> ELSE values.values

\* the list is non-empty and has not (number of moras - start) values
DoesNotFit(values, start) ==
    NonEmptyList(values) /\ Len(values.values) # TotalCount - start

\* apply_length_values(apply_pitch_values(Q, pitch, start), length, start)
\* for the query Q the caller handed in, alone on a heap of its own
PitchThenLength(pitch, length, start) ==
    LET alone == [r \in Refs |-> IF r = 1 THEN original ELSE Null]
        first == apply_pitch_values(alone, 1, pitch, start)
    IN  IF first.status # "ok" THEN first
        ELSE apply_length_values(first.heap, first.ref, length, start)

\* C26: apply_extended_dict(Q, entry, match) gives what
\* apply_length_values(apply_pitch_values(Q, pitch_values, start),
\* length_values, start) gives, absent and empty lists skipped, with start
\* the start_mora_index of the match: the same query when it succeeds, in
\* an object of its own, and the count-mismatch error exactly when a
\* non-empty list has not as many values as the query has moras from start
\* on, whatever the end_mora_index of the match; Q is unchanged.
C26_ExtendedDictIsPitchThenLength ==
    (ReturnedExtended /\ HasStart) =>
        LET start == call.match_result.start_mora_index
            composed == PitchThenLength(ListOf(call.entry.pitch_values),
                                        ListOf(call.entry.length_values), start)
        IN  /\ heap[audio_query] = original
            /\ ret.status = composed.status
            /\ ret.status = "ok" =>
                  /\ ret.ref # audio_query
                  /\ heap[ret.ref] = composed.heap[composed.ref]
                  /\ \A r \in Refs \ {audio_query, ret.ref} : heap[r] = Null
            /\ (DoesNotFit(call.entry.pitch_values, start)
                   \/ DoesNotFit(call.entry.length_values, start))
               <=> (/\ ret.status = "ValueError"
                    /\ ret.message = "mora count mismatch"
                    /\ ret.ref = 0)

\* both lists were written from a start index above 0 into moras of two
\* accent phrases, for a match whose end_mora_index is 0
C26_Witness ==
    /\ ReturnedExtended /\ HasStart
    /\ ret.status = "ok"
    /\ call.match_result.start_mora_index > 0
    /\ call.match_result.end_mora_index = 0
    /\ Len(ListOf(call.entry.pitch_values)) = 2
    /\ Len(ListOf(call.entry.length_values)) = 2
    /\ Len(InPhrases) = 2
    /\ call.match_result.start_mora_index < Len(InPhrases[1].moras)

\* the pitch list fits and the length list does not: the call fails
ExtendedLengthMismatch ==
    /\ ReturnedExtended /\ HasStart
    /\ NonEmptyList(call.entry.pitch_values)
    /\ ~DoesNotFit(call.entry.pitch_values, call.match_result.start_mora_index)
    /\ DoesNotFit(call.entry.length_values, call.match_result.start_mora_index)
    /\ ret.status = "ValueError"

----------------------------------------------------------------------------
(* The request handlers: the query a request ends with *)

\* the handler answered with the query its loop ended with
AnsweredWithQuery ==
    /\ endpoint \in TextEndpoints \cup {"apply"}
    /\ response.status = 200
    /\ ~Excepted
    /\ entries # <<>>

\* match k of the request was applied, not skipped
AppliedMatch(k) == FitsRange(results[k]) /\ RangeInsideQuery(results[k], original)

\* match k covers mora i (a Python index) of accent phrase j (a Python index)
Covers(k, j, i) ==
    /\ results[k].accent_phrase_index = j
    /\ results[k].mora_start_index <= i
    /\ i < results[k].mora_end_index

\* the list of an entry that is written into the field `field` of a mora
ListFor(field) == IF field = "pitch" THEN "pitch_values" ELSE "length_values"

\* the applied matches that wrote the field `field` of mora i of phrase j
Writers(j, i, field) ==
    {k \in 1..Len(results) :
        /\ AppliedMatch(k)
        /\ Covers(k, j, i)
        /\ NonEmptyList(entries[results[k].entry][ListFor(field)])}

Max(S) == CHOOSE x \in S : \A y \in S : y <= x

\* matches k and l have no mora in common
Disjoint(k, l) ==
    \/ results[k].accent_phrase_index # results[l].accent_phrase_index
    \/ results[k].mora_end_index <= results[l].mora_start_index
    \/ results[l].mora_end_index <= results[k].mora_start_index

\* the orders in which the elements of S can be taken
RECURSIVE Orders(_)
Orders(S) ==
    IF S = {} THEN {<<>>}
    ELSE UNION {{<<x>> \o rest : rest \in Orders(S \ {x})} : x \in S}

\* the query q after apply_partial_match was called for the matches of the
\* request in the order `order`, each on the result of the one before, a
\* match that raises being skipped
RECURSIVE OverlayInOrder(_, _)
OverlayInOrder(q, order) ==
    IF order = <<>> THEN q
    ELSE
    LET m == results[Head(order)]
        alone == [r \in Refs |-> IF r = 1 THEN q ELSE Null]
        out == apply_partial_match(alone, 1, entries[m.entry], m.accent_phrase_index,
                                   m.mora_start_index, m.mora_end_index)
    IN  OverlayInOrder(IF out.status = "ok" THEN out.heap[out.ref] ELSE q, Tail(order))

\* C27: when several applied matches of one request cover the same mora,
\* the query the request ends with holds, in that mora and for each of
\* pitch and vowel_length, the value of the last match in result order that
\* wrote it, and the engine's value when no match wrote it; when the
\* applied matches have pairwise disjoint ranges, applying the matches in
\* any order gives that same query.
C27_LastWriterWins ==
    AnsweredWithQuery =>
        /\ SameShape(response.query.accent_phrases, original.accent_phrases)
        /\ \A j \in 1..Len(original.accent_phrases) :
              \A i \in 1..Len(original.accent_phrases[j].moras) :
                 \A field \in {"pitch", "vowel_length"} :
                    LET writers == Writers(j - 1, i - 1, field)
                        last == results[Max(writers)]
                    IN  response.query.accent_phrases[j].moras[i][field] =
                           IF writers = {}
                           THEN original.accent_phrases[j].moras[i][field]
                           ELSE entries[last.entry][ListFor(field)].values[
                                    i - last.mora_start_index]
        /\ (\A k, l \in 1..Len(results) :
               (k # l /\ AppliedMatch(k) /\ AppliedMatch(l)) => Disjoint(k, l))
           => \A order \in Orders(1..Len(results)) :
                 OverlayInOrder(original, order) = response.query

\* two applied matches wrote different pitches into the second mora of a
\* segment, and a third applied match is disjoint from the later of them
C27_Witness ==
    /\ AnsweredWithQuery
    /\ \E k, l \in Writers(0, 1, "pitch") :
          /\ k < l
          /\ entries[results[k].entry].pitch_values.values[2 - results[k].mora_start_index]
                # entries[results[l].entry].pitch_values.values[2 - results[l].mora_start_index]
    /\ \E k \in 1..Len(results) : AppliedMatch(k) /\ ~Covers(k, 0, 1)

\* two applied matches with disjoint ranges in one segment, and no others
DisjointInOneSegment ==
    /\ AnsweredWithQuery
    /\ Len(results) = 2
    /\ AppliedMatch(1) /\ AppliedMatch(2)
    /\ results[1].accent_phrase_index = results[2].accent_phrase_index
    /\ Disjoint(1, 2)
    /\ NonEmptyList(entries[results[1].entry].pitch_values)

----------------------------------------------------------------------------
(* The matcher: one result for one occurrence *)

\* the start mora of result k starts at the offset of an occurrence the
\* scan of its segment finds
StartsAtScannedOffset(k) ==
    LET j == results[k].accent_phrase_index + 1
    IN  OffsetOf(j, results[k].mora_start_index)
            \in ScanOffsets(SegmentString(j), entries[results[k].entry].pronunciation, 0)

\* no two results have the same entry, segment and mora range
NoTwoAlike == \A k, l \in 1..Len(results) : results[k] = results[l] => k = l

\* C28, as claimed: in find_matches_with_text the start mora of every
\* result is the mora that starts at the character offset of the scanned
\* occurrence, so an occurrence gives at most one result and no two results
\* have the same entry, segment and mora range, also when a mora text is
\* longer than one character and an occurrence begins inside a mora.
C28_OneResultPerOccurrence ==
    MatchedPartial =>
        /\ \A k \in 1..Len(results) : StartsAtScannedOffset(k)
        /\ NoTwoAlike

\* the first half of C28 alone
ResultsStartAtScannedOffsets ==
    MatchedPartial => \A k \in 1..Len(results) : StartsAtScannedOffset(k)

\* the second half of C28 for the queries whose mora texts are all one
\* character long
NoTwoAlikeSingleCharacter ==
    (MatchedPartial
       /\ \A j \in 1..Len(Phrases) : \A k \in 1..Len(TextsOf(j)) : Len(TextsOf(j)[k]) = 1)
    => NoTwoAlike

----------------------------------------------------------------------------
(* The matcher and the handlers: the ranges of the results *)

\* 0 <= segment index < number of segments of q, and
\* 0 <= start < end <= number of moras of that segment
RangeStrictlyInside(m, q) ==
    /\ RangeInsideQuery(m, q)
    /\ m.mora_start_index < m.mora_end_index

\* a handler is in, or past, its loop over the matches
InOrPastLoop ==
    /\ endpoint \in TextEndpoints \cup {"apply"}
    /\ modified_query # 0

\* the last overlay of a handler was skipped
Skipped ==
    /\ endpoint \in TextEndpoints \cup {"apply"}
    /\ call.op = "apply_partial_match"
    /\ ret.status \notin {"ok", "Exception"}

\* C29: every result of find_matches_with_text on a query Q has its segment
\* index inside Q and 0 <= start < end <= number of moras of that segment.
\* So in the handlers every match is in range on Q and on every overlaid
\* query, apply_partial_match never fails with a range error there, and a
\* match is skipped only for a count mismatch.
C29_ResultsInRange ==
    /\ InOrPastLoop =>
          \A k \in 1..Len(results) :
              /\ RangeStrictlyInside(results[k], original)
              /\ RangeStrictlyInside(results[k], heap[modified_query])
    /\ Skipped =>
          /\ ret.status = "ValueError"
          /\ ret.message = "mora count mismatch"
          /\ ~FitsRange(results[match_index])

\* a handler skipped a match on a query an earlier match had been laid over
C29_Witness ==
    /\ Skipped
    /\ pc = "apply_loop"
    /\ applied >= 1
    /\ heap[modified_query] # original
    /\ match_index < Len(results)

\* the same ranges, for every query and every list of entries of the matcher
MatcherResultsInRange ==
    MatchedPartial =>
        \A k \in 1..Len(results) : RangeStrictlyInside(results[k], heap[audio_query])

\* the matcher gave a result that ends at the last mora of the second segment
ResultAtEndOfSecondSegment ==
    /\ MatchedPartial
    /\ \E k \in 1..Len(results) :
          /\ results[k].accent_phrase_index = 1
          /\ results[k].mora_start_index > 0
          /\ results[k].mora_end_index = Len(Phrases[2].moras)

----------------------------------------------------------------------------
(* The overlay keeps the shape of the query *)

\* one or two successful calls of the overlay functions were made, the
\* second on the result of the first
Overlaid1or2 ==
    /\ pc \in {"returned", "returned_again"}
    /\ call.op \in EngineOps
    /\ ret.status = "ok"

\* every mora of out_phrases has the text of the mora of in_phrases at its place
SameTexts(out_phrases, in_phrases) ==
    \A j \in 1..Len(in_phrases) : \A k \in 1..Len(in_phrases[j].moras) :
        out_phrases[j].moras[k].text = in_phrases[j].moras[k].text

\* entry lists and a source text to look up in a query whose mora texts are "a"
LookedUp(pronunciation) == ExtendedDictEntry(<<"w">>, pronunciation, None, None)

LookedUpLists ==
    {<<LookedUp(<<"a">>)>>, <<LookedUp(<<"a", "a">>), LookedUp(<<"a">>)>>}

\* the two matchers give on q what they give on the original query
MatchedAlike(q, es, text) ==
    /\ find_matches(q, es) = find_matches(original, es)
    /\ find_matches_with_text(q, es, text) = find_matches_with_text(original, es, text)

\* C30: after one successful call of apply_partial_match, apply_pitch_values
\* or apply_length_values, and after a second one on its result, the query
\* handed back has the accent phrases of the original query, each with as
\* many moras, every mora with its text; find_matches and
\* find_matches_with_text return on it what they return on the original.
C30_ShapePreserved ==
    Overlaid1or2 =>
        /\ SameShape(heap[ret.ref].accent_phrases, original.accent_phrases)
        /\ SameTexts(heap[ret.ref].accent_phrases, original.accent_phrases)
        /\ \A es \in LookedUpLists : MatchedAlike(heap[ret.ref], es, <<"w">>)

\* a second call wrote into the result of a first one that had written too,
\* and the matcher finds something in the query
C30_Witness ==
    /\ Overlaid1or2
    /\ pc = "returned_again"
    /\ heap[ret.ref] # original
    /\ \E r \in Refs \ {audio_query, ret.ref} :
          /\ heap[r] # Null
          /\ heap[r] # original
          /\ heap[r] # heap[ret.ref]
    /\ \E es \in LookedUpLists : find_matches_with_text(heap[ret.ref], es, <<"w">>) # <<>>

\* the second call was of another function than the one before could be:
\* a whole-query function after which pitch and length both differ
MixedSequence ==
    /\ Overlaid1or2
    /\ pc = "returned_again"
    /\ call.op = "apply_length_values"
    /\ \E j \in 1..Len(original.accent_phrases) :
          \E k \in 1..Len(original.accent_phrases[j].moras) :
              /\ heap[ret.ref].accent_phrases[j].moras[k].pitch
                    # original.accent_phrases[j].moras[k].pitch
              /\ heap[ret.ref].accent_phrases[j].moras[k].vowel_length
                    # original.accent_phrases[j].moras[k].vowel_length

\* in the handlers the matchers give on the overlaid query what
\* find_matches_with_text gave on the query of the engine
OverlaidRematchSame ==
    (InOrPastLoop /\ heap[modified_query] # Null) =>
        /\ SameShape(heap[modified_query].accent_phrases, original.accent_phrases)
        /\ SameTexts(heap[modified_query].accent_phrases, original.accent_phrases)
        /\ find_matches_with_text(heap[modified_query], entries, input_text) = results
        /\ find_matches(heap[modified_query], entries) = find_matches(original, entries)

\* a handler applied two matches and the overlaid query is not the original
OverlaidTwice ==
    /\ InOrPastLoop
    /\ applied >= 2
    /\ heap[modified_query] # Null
    /\ heap[modified_query] # original
    /\ results # <<>>

====
